---- MODULE Spec2Model ----
(***************************************************************************)
(* A model of the phylogenetic-tree core of biopy: the Newick reader of    *)
(* parseNewick.py, TreeBuilder and the tree algorithms of treeutils.py,    *)
(* and Tree / consensus of ITrees.py.                                      *)
(*                                                                         *)
(* Conventions                                                             *)
(*  - text is a sequence of one-character strings;                         *)
(*  - Python's None is the empty tuple <<>>, a value x that may be None is  *)
(*    held as <<x>>;                                                        *)
(*  - a float is held as the integer number of HALVES it is worth (2 is    *)
(*    1.0, 3 is 1.5): every value the model computes is a small dyadic     *)
(*    rational, on which IEEE double arithmetic is exact.  The clade        *)
(*    frequencies of consensus(), which are not dyadic, are held as real   *)
(*    doubles (see the section on doubles);                                 *)
(*  - node ids, list positions and child indices are 0-based as in the     *)
(*    code; None as a node id is -1.                                       *)
(***************************************************************************)
EXTENDS Integers, Sequences, FiniteSets, TLC

None == <<>>
Some(x) == <<x>>
NoId == -1

(***************************************************************************)
(* Python list and string helpers                                          *)
(***************************************************************************)
\* F of the value of v, which is worked out once
With(v, F(_)) == CHOOSE y \in {F(x) : x \in {v}} : TRUE

\* s[k:] for k >= 0
Drop(s, k) == IF k >= Len(s) THEN <<>> ELSE SubSeq(s, k + 1, Len(s))
\* s[:k] for k >= 0
Take(s, k) == IF k >= Len(s) THEN s ELSE SubSeq(s, 1, k)
Range(s) == {s[i] : i \in 1..Len(s)}
Last(s) == s[Len(s)]

RECURSIVE Concat(_)
\* the concatenation of a sequence of sequences
Concat(ss) == IF ss = <<>> THEN <<>> ELSE ss[1] \o Concat(Tail(ss))

RECURSIVE Join(_, _)
\* sep.join(ss)
Join(ss, sep) ==
  IF ss = <<>> THEN <<>>
  ELSE IF Len(ss) = 1 THEN ss[1]
  ELSE ss[1] \o sep \o Join(Tail(ss), sep)

\* position (1-based) of the first occurrence of x in s, 0 when absent
IndexOf(s, x) ==
  IF x \in Range(s) THEN CHOOSE i \in 1..Len(s) : s[i] = x /\ \A j \in 1..(i-1) : s[j] # x
  ELSE 0

\* s without its first occurrence of x (list.remove / pop(index))
RemoveFirst(s, x) ==
  LET i == IndexOf(s, x) IN
  IF i = 0 THEN s ELSE SubSeq(s, 1, i - 1) \o SubSeq(s, i + 1, Len(s))

\* s without its element at position i (1-based)
RemoveAt(s, i) == SubSeq(s, 1, i - 1) \o SubSeq(s, i + 1, Len(s))

\* the ASCII code of the characters the model uses
Ord(c) ==
  CASE c = " " -> 32 [] c = "\"" -> 34 [] c = "&" -> 38
    [] c = "(" -> 40 [] c = ")" -> 41 [] c = "," -> 44 [] c = "." -> 46
    [] c = "0" -> 48 [] c = "1" -> 49 [] c = "2" -> 50 [] c = "3" -> 51
    [] c = "4" -> 52 [] c = "5" -> 53 [] c = "6" -> 54 [] c = "7" -> 55
    [] c = "8" -> 56 [] c = "9" -> 57
    [] c = ":" -> 58 [] c = ";" -> 59 [] c = "=" -> 61
    [] c = "A" -> 65 [] c = "B" -> 66 [] c = "C" -> 67 [] c = "D" -> 68
    [] c = "[" -> 91 [] c = "\\" -> 92 [] c = "]" -> 93
    [] c = "x" -> 120 [] c = "{" -> 123 [] c = "}" -> 125

RECURSIVE StrLess(_, _)
\* Python's a < b on strings
StrLess(a, b) ==
  IF b = <<>> THEN FALSE
  ELSE IF a = <<>> THEN TRUE
  ELSE IF a[1] # b[1] THEN Ord(a[1]) < Ord(b[1])
  ELSE StrLess(Tail(a), Tail(b))

StrLeq(a, b) == a = b \/ StrLess(a, b)

RECURSIVE InsertSorted(_, _)
InsertSorted(sorted, x) ==
  IF sorted = <<>> THEN <<x>>
  ELSE IF StrLess(x, sorted[1]) THEN <<x>> \o sorted
  ELSE <<sorted[1]>> \o InsertSorted(Tail(sorted), x)

\* reps.sort() left out
SortStringsLeftOut(ss) == ss
RECURSIVE SortStrings(_)
\* list.sort() on a list of strings
SortStrings(ss) ==
  IF ss = <<>> THEN <<>> ELSE InsertSorted(SortStrings(Take(ss, Len(ss) - 1)), Last(ss))

IsSpace(c) == c = " "
IsDigit(c) == c \in {"0", "1", "2", "3", "4", "5", "6", "7", "8", "9"}
DigitVal(c) == Ord(c) - 48
DigitChar(d) == CHOOSE c \in {"0", "1", "2", "3", "4", "5", "6", "7", "8", "9"} : Ord(c) = 48 + d

RECURSIVE StripLeft(_)
StripLeft(s) == IF s # <<>> /\ IsSpace(s[1]) THEN StripLeft(Tail(s)) ELSE s
RECURSIVE StripRight(_)
StripRight(s) == IF s # <<>> /\ IsSpace(Last(s)) THEN StripRight(Take(s, Len(s) - 1)) ELSE s
\* s.strip()
Strip(s) == StripRight(StripLeft(s))

(***************************************************************************)
(* Floats, in halves                                                       *)
(***************************************************************************)
RECURSIVE DigitsOf(_)
\* the decimal digits of a natural number
DigitsOf(k) == IF k < 10 THEN <<DigitChar(k)>> ELSE DigitsOf(k \div 10) \o <<DigitChar(k % 10)>>

RECURSIVE NatOf(_)
\* the number a non-empty string of digits denotes
NatOf(ds) == IF ds = <<>> THEN 0 ELSE 10 * NatOf(Take(ds, Len(ds) - 1)) + DigitVal(Last(ds))

AllDigits(s) == \A i \in 1..Len(s) : IsDigit(s[i])
AllZero(s) == \A i \in 1..Len(s) : s[i] = "0"

\* "%r" % x for a float x >= 0 worth h halves: 2 -> "1.0", 3 -> "1.5"
ReprFloat(h) == DigitsOf(h \div 2) \o (IF h % 2 = 0 THEN <<".", "0">> ELSE <<".", "5">>)
\* "%g" % x for a float x >= 0 worth h halves: 2 -> "1", 3 -> "1.5"
FormatG(h) == DigitsOf(h \div 2) \o (IF h % 2 = 0 THEN <<>> ELSE <<".", "5">>)

\* float(s) for the unsigned decimal strings whose value is a whole number of
\* halves; None is ValueError.  A signed or exponent form, or a decimal that is
\* not a whole number of halves, has the value Unmodelled (no text of the
\* model is one).
Unmodelled == -1
FloatOf(s) ==
  LET dot == IndexOf(s, ".")
      ip == IF dot = 0 THEN s ELSE Take(s, dot - 1)
      fp == IF dot = 0 THEN <<>> ELSE Drop(s, dot)
  IN IF \E i \in 1..Len(s) : s[i] \in {"+", "-", "E", "e"} THEN Some(Unmodelled)
     ELSE IF ~(AllDigits(ip) /\ AllDigits(fp)) \/ (ip = <<>> /\ fp = <<>>) THEN None
     ELSE IF AllZero(fp) THEN Some(2 * NatOf(ip))
     ELSE IF fp[1] = "5" /\ AllZero(Tail(fp)) THEN Some(2 * NatOf(ip) + 1)
     ELSE Some(Unmodelled)

(***************************************************************************)
(* Python floats (IEEE doubles) to the last bit, for the clade frequencies *)
(* of consensus: a value v, 0 <= v < 4, is the sequence of the IntBits +   *)
(* FracBits binary digits of v, most significant first.  A double of 1/16  *)
(* or more has no digit beyond FracBits.                                   *)
(***************************************************************************)
MantissaBits == 53
IntBits == 2
FracBits == 56
Width == IntBits + FracBits

\* the value with the single digit 1 at position p
FxUnit(p) == [i \in 1..Width |-> IF i = p THEN 1 ELSE 0]
\* the float worth h halves, 0 <= h < 8
FxHalves(h) ==
  [i \in 1..Width |-> IF i = 1 THEN (h \div 4) % 2 ELSE IF i = 2 THEN (h \div 2) % 2
                      ELSE IF i = 3 THEN h % 2 ELSE 0]

\* the carry of a + b into position i: some lower position produces one and
\* every position between passes it on
Carry(a, b, i) ==
  \E j \in (i + 1)..Width : a[j] = 1 /\ b[j] = 1 /\ \A k \in (i + 1)..(j - 1) : a[k] + b[k] = 1
\* a + b exactly
FxAdd(a, b) == [i \in 1..Width |-> (a[i] + b[i] + (IF Carry(a, b, i) THEN 1 ELSE 0)) % 2]

\* a < b
FxLess(a, b) == \E i \in 1..Width : a[i] < b[i] /\ \A j \in 1..(i - 1) : a[j] = b[j]

\* x cut after digit last and rounded to nearest, ties to even
RoundAt(x, last) ==
  IF x[last + 1] = 1 /\ (x[last] = 1 \/ \E j \in (last + 2)..Width : x[j] = 1)
  THEN With([i \in 1..Width |-> IF i <= last THEN x[i] ELSE 0], LAMBDA cut :
         With(FxUnit(last), LAMBDA unit : FxAdd(cut, unit)))
  ELSE [i \in 1..Width |-> IF i <= last THEN x[i] ELSE 0]
\* x as a double: MantissaBits digits from its first 1
RoundToDouble(x) ==
  IF \A i \in 1..Width : x[i] = 0 THEN x
  ELSE With(CHOOSE i \in 1..Width : x[i] = 1 /\ \A j \in 1..(i - 1) : x[j] = 0, LAMBDA lead :
         IF lead + MantissaBits - 1 >= Width THEN x ELSE RoundAt(x, lead + MantissaBits - 1))
\* the float a + b
FloatAdd(a, b) == With(FxAdd(a, b), LAMBDA x : RoundToDouble(x))

RECURSIVE PowMod(_, _)
\* 2^k modulo n: the remainder of the long division of 1 by n after k digits
PowMod(k, n) ==
  IF k = 0 THEN 1 % n
  ELSE IF k % 2 = 0 THEN (PowMod(k \div 2, n) * PowMod(k \div 2, n)) % n
  ELSE (2 * PowMod(k - 1, n)) % n
\* digit k after the point of 1 / n
InverseDigit(k, n) == IF 2 * PowMod(k - 1, n) >= n THEN 1 ELSE 0
\* 1 / n, 2 <= n <= 16, cut after digit last and rounded to nearest by the
\* remainder left there
InverseAt(n, last) ==
  With([i \in 1..Width |-> IF i > IntBits /\ i <= IntBits + last THEN InverseDigit(i - IntBits, n) ELSE 0],
    LAMBDA q : IF 2 * PowMod(last, n) > n \/ (2 * PowMod(last, n) = n /\ q[IntBits + last] = 1)
               THEN With(FxUnit(IntBits + last), LAMBDA unit : FxAdd(q, unit)) ELSE q)
\* the float 1.0 / n, 1 <= n <= 16: MantissaBits digits from the first 1
FloatInverse(n) ==
  IF n = 1 THEN FxHalves(2)
  ELSE With(CHOOSE k \in 1..FracBits : InverseDigit(k, n) = 1 /\ \A j \in 1..(k - 1) : InverseDigit(j, n) = 0,
         LAMBDA lead : InverseAt(n, lead + MantissaBits - 1))

(***************************************************************************)
(* parseNewick.py: the reader.  Every function returns a record with an    *)
(* err field: "" when it returned, else the exception it raised.           *)
(***************************************************************************)
RECURSIVE getStuffFrom(_, _, _)
getStuffFrom(s, sep, e) ==
  IF e >= Len(s) THEN -1                       \* s[e]: IndexError
  ELSE IF s[e + 1] # sep \/ (IF e = 0 THEN Last(s) ELSE s[e]) = "\\"
       THEN getStuffFrom(s, sep, e + 1)
       ELSE e
\* _getStuff(s, sep): the index of the first unescaped sep; -1 is IndexError.
\* At e = 0 the code reads s[-1], the last character.
getStuff(s, sep) == IF s = <<>> THEN -1 ELSE getStuffFrom(s, sep, 0)

RECURSIVE findIndexFrom(_, _, _, _)
findIndexFrom(s, ch, stopAt, e) ==
  IF s[e + 1] = ch THEN e
  ELSE IF s[e + 1] \in stopAt THEN e
  ELSE IF e + 1 >= Len(s) THEN -1
  ELSE findIndexFrom(s, ch, stopAt, e + 1)
\* _findIndex(s, ch, stopAt) on a non-empty s; -2 is the IndexError on an empty s
findIndex(s, ch, stopAt) == IF s = <<>> THEN -2 ELSE findIndexFrom(s, ch, stopAt, 0)

RECURSIVE skipSpaces(_)
skipSpaces(txt) == IF txt # <<>> /\ IsSpace(txt[1]) THEN 1 + skipSpaces(Tail(txt)) ELSE 0

\* dict.update on a dict held as a sequence of <<name, value>> pairs in
\* insertion order of the names
RECURSIVE DictPut(_, _)
DictPut(d, kv) ==
  IF d = <<>> THEN <<kv>>
  ELSE IF d[1][1] = kv[1] THEN <<kv>> \o Tail(d)
  ELSE <<d[1]>> \o DictPut(Tail(d), kv)
RECURSIVE DictUpdate(_, _)
DictUpdate(d, kvs) == IF kvs = <<>> THEN d ELSE DictUpdate(DictPut(d, kvs[1]), Tail(kvs))

ParseFail(e) == [err |-> e, eat |-> 0, vals |-> <<>>]

RECURSIVE parseAttributesLoop(_, _, _)
parseAttributesLoop(s0, eat0, vals) ==
  IF s0 = <<>> THEN ParseFail("IndexError")
  ELSE IF s0[1] = "]" THEN [err |-> "", eat |-> eat0, vals |-> vals]
  ELSE
    LET comma == s0[1] = ","
        s1 == IF comma THEN Tail(s0) ELSE s0
        eat1 == IF comma THEN eat0 + 1 ELSE eat0
        nameEnd == findIndex(s1, "=", {",", "]", "\"", "{", "}"})
    IN IF nameEnd = -2 THEN ParseFail("IndexError")
       ELSE IF nameEnd = -1 \/ s1[nameEnd + 1] # "=" THEN ParseFail("RuntimeError")
       ELSE
         LET name == Take(s1, nameEnd)
             s2 == Drop(s1, nameEnd + 1)
             eat2 == eat1 + nameEnd + 1
         IN IF s2 = <<>> THEN ParseFail("IndexError")
            ELSE IF s2[1] \in {"\"", "{"} THEN
              LET e == getStuff(Tail(s2), IF s2[1] = "{" THEN "}" ELSE "\"")
              IN IF e = -1 THEN ParseFail("IndexError")
                 ELSE parseAttributesLoop(Drop(s2, e + 2), eat2 + e + 2,
                        Append(vals, <<Strip(name), Strip(SubSeq(s2, 2, e + 1))>>))
            ELSE
              LET e == findIndex(s2, ",", {"]"})
              IN IF e = -1 THEN ParseFail("RuntimeError")
                 ELSE parseAttributesLoop(Drop(s2, e), eat2 + e,
                        Append(vals, <<Strip(name), Strip(Take(s2, e))>>))
\* _parseAttributes(s): the characters eaten and the (name, value) pairs
parseAttributes(s) == parseAttributesLoop(s, 0, <<>>)

\* one record of the emitted list
Rec(name, bl, subs, attrs) == [name |-> name, bl |-> bl, subs |-> subs, attrs |-> attrs]
SetLast(nodesList, r) == [nodesList EXCEPT ![Len(nodesList)] = r]

ReadFail(e) == [err |-> e, n |-> 0, nodes |-> <<>>, txt |-> <<>>]
ReadOk(n, nodes, txt) == [err |-> "", n |-> n, nodes |-> nodes, txt |-> txt]

RECURSIVE nameLen(_, _)
\* the terminal's name scan: the number of characters up to the first of
\* space : [ , ( ) ]; -1 is the IndexError of running off the text
nameLen(txt, n1) ==
  IF n1 >= Len(txt) THEN -1
  ELSE IF IsSpace(txt[n1 + 1]) \/ txt[n1 + 1] \in {":", "[", ",", "(", ")", "]"} THEN n1
  ELSE nameLen(txt, n1 + 1)

RECURSIVE numLen(_, _)
numLen(nodeTxt, n1) ==
  IF n1 < Len(nodeTxt) /\ (IsDigit(nodeTxt[n1 + 1]) \/ nodeTxt[n1 + 1] \in {".", "+", "-", "E", "e"})
  THEN numLen(nodeTxt, n1 + 1) ELSE n1

\* lines 151-159: the branch length after the ":" that nodeTxt starts with
readBranch(nodeTxt, nodesList, n, txt) ==
  With(Drop(nodeTxt, 1 + skipSpaces(Drop(nodeTxt, 1))), LAMBDA nodeTxt3 :
    With(FloatOf(Take(nodeTxt3, numLen(nodeTxt3, 0))), LAMBDA b :
      IF b = None THEN ReadFail("ValueError")
      ELSE ReadOk(n, SetLast(nodesList, [Last(nodesList) EXCEPT !.bl = b]), txt)))

\* lines 143-160: the name and the branch length held in the node's text
readNodeTxt(nodeTxt0, nodesList, n, txt) ==
  With(Drop(nodeTxt0, skipSpaces(nodeTxt0)), LAMBDA nodeTxt1 :
    IF nodeTxt1 = <<>> THEN ReadOk(n, nodesList, txt)
    ELSE With(findIndex(nodeTxt1, ":", {}), LAMBDA i :
      LET k == IF i > 0 THEN i ELSE Len(nodeTxt1)
      IN IF i = 0 THEN readBranch(nodeTxt1, nodesList, n, txt)
         ELSE With(SetLast(nodesList, [Last(nodesList) EXCEPT !.name = Some(Strip(Take(nodeTxt1, k)))]),
                LAMBDA nodes1 :
                  IF i < 0 THEN ReadOk(n, nodes1, txt)
                  ELSE readBranch(Strip(Drop(nodeTxt1, k)), nodes1, n, txt))))

RECURSIVE readInfo(_, _, _, _)
\* lines 115-141: the loop over what follows a name or a closing parenthesis
readInfo(txt, nodesList, n, nodeTxt) ==
  IF txt = <<>> \/ txt[1] \in {"(", ")", ",", ";"} THEN readNodeTxt(nodeTxt, nodesList, n, txt)
  ELSE IF txt[1] = "[" THEN
    IF Len(txt) < 2 THEN ReadFail("IndexError")
    ELSE IF txt[2] = "&" THEN
      With(parseAttributes(Drop(txt, 2)), LAMBDA a :
        IF a.err # "" THEN ReadFail(a.err)
        ELSE LET n1 == a.eat + 3
                 n2 == n1 + skipSpaces(Drop(txt, n1))
                 old == Last(nodesList).attrs
                 new == DictUpdate(IF old = None THEN <<>> ELSE old[1], a.vals)
             IN readInfo(Drop(txt, n2), SetLast(nodesList, [Last(nodesList) EXCEPT !.attrs = Some(new)]),
                         n + n2, nodeTxt))
    ELSE
      With(getStuff(Tail(txt), "]"), LAMBDA e :
        IF e = -1 THEN ReadFail("IndexError")
        ELSE readInfo(Drop(txt, e + 2), nodesList, n + e + 2, nodeTxt))
  ELSE readInfo(Tail(txt), nodesList, n + 1, Append(nodeTxt, txt[1]))

\* the index past the end of the list
childIndexPastEnd(nodesList) == Len(nodesList)
\* line 89: the index of the record the subtree just read ended with
childIndex(nodesList) == Len(nodesList) - 1

RECURSIVE readSubTree(_, _), readGroup(_, _, _, _)
\* lines 85-101: one turn of the loop over the subtrees of a group; txt starts
\* with the "(" or the "," that precedes the next subtree
readGroup(txt, nodesList, subs, n) ==
  With(readSubTree(Tail(txt), nodesList), LAMBDA r :
    IF r.err # "" THEN r
    ELSE
      With(Drop(txt, 1 + r.n), LAMBDA txt1 :
        LET subs1 == Append(subs, childIndex(r.nodes))
            n1 == skipSpaces(txt1)
            n2 == n + 1 + r.n + n1
        IN IF n1 >= Len(txt1) THEN ReadFail("IndexError")
           ELSE IF txt1[n1 + 1] = "," THEN readGroup(Drop(txt1, n1), r.nodes, subs1, n2)
           ELSE IF txt1[n1 + 1] = ")"
                THEN ReadOk(n2 + 1, Append(r.nodes, Rec(None, None, Some(subs1), None)), Drop(txt1, n1 + 1))
           ELSE ReadFail("RuntimeError")))

\* lines 103-109: a terminal; its name ends at a space or one of : [ , ( ) ]
readTerminal(txt, nodesList, n0) ==
  With(nameLen(txt, 0), LAMBDA n1 :
    IF n1 = -1 THEN ReadFail("IndexError")
    ELSE ReadOk(n0 + n1, Append(nodesList, Rec(Some(Take(txt, n1)), None, None, None)), Drop(txt, n1)))

\* _readSubTree(txt, nodesList): the characters read (n) and the list with the
\* subtree's records appended
readSubTree(txt0, nodesList) ==
  With(skipSpaces(txt0), LAMBDA n0 :
    IF n0 >= Len(txt0) THEN ReadFail("IndexError")
    ELSE
      With(IF txt0[n0 + 1] = "(" THEN readGroup(Drop(txt0, n0), nodesList, <<>>, n0)
           ELSE readTerminal(Drop(txt0, n0), nodesList, n0),
        LAMBDA head :
          IF head.err # "" THEN head
          ELSE With(skipSpaces(head.txt), LAMBDA n1 :
                 readInfo(Drop(head.txt, n1), head.nodes, head.n + n1, <<>>))))

(***************************************************************************)
(* Nodes.Chain, the node store: ids are handed out by a counter            *)
(***************************************************************************)
Node(prev, succ, taxon, bl, support, attrs) ==
  [prev |-> prev, succ |-> succ, taxon |-> taxon, branchlength |-> bl, support |-> support,
   attributes |-> attrs]
\* Nodes.Node(NodeData()): NodeData's defaults are taxon None, branchlength 0.0,
\* support None, and no attributes member
NewNode == Node(NoId, <<>>, None, Some(0), None, None)

\* Chain.add(node, prev): the tree with the node stored under a fresh id
ChainAdd(t, node, prev) ==
  LET id == t.id + 1
      c1 == (id :> [node EXCEPT !.prev = prev]) @@ t.chain
  IN [t EXCEPT !.id = id,
               !.chain = IF prev = NoId THEN c1 ELSE [c1 EXCEPT ![prev].succ = Append(@, id)]]
\* Chain.kill(id)
ChainKill(t, id) == [t EXCEPT !.chain = [i \in DOMAIN t.chain \ {id} |-> t.chain[i]]]
\* Chain.unlink(id): detaches id from its parent
ChainUnlink(t, id) ==
  LET p == t.chain[id].prev
  IN IF p = NoId THEN t
     ELSE [t EXCEPT !.chain = [@ EXCEPT ![p].succ = RemoveFirst(@, id), ![id].prev = NoId]]
\* Chain.link(parent, child)
ChainLink(t, parent, child) ==
  LET u == ChainUnlink(t, child)
  IN [u EXCEPT !.chain = [@ EXCEPT ![parent].succ = Append(@, child), ![child].prev = parent]]
\* Chain.collapse(id): the children of id become children of its parent
ChainCollapse(t, id) ==
  LET p == t.chain[id].prev
      kids == t.chain[id].succ
      c1 == [i \in DOMAIN t.chain |->
               IF i = p THEN [t.chain[i] EXCEPT !.succ = RemoveFirst(@, id) \o kids]
               ELSE IF i \in Range(kids) THEN [t.chain[i] EXCEPT !.prev = p]
               ELSE t.chain[i]]
  IN ChainKill([t EXCEPT !.chain = c1], id)
\* Chain.all_ids(): the keys of a dict of small ints come out ascending
RECURSIVE SortedIds(_)
SortedIds(S) == IF S = {} THEN <<>>
                ELSE LET m == CHOOSE x \in S : \A y \in S : x <= y IN <<m>> \o SortedIds(S \ {m})
all_ids(t) == SortedIds(DOMAIN t.chain)

\* Tree(): an empty chain and a placeholder root
EmptyTree ==
  LET t0 == [chain |-> <<>>, id |-> -1, root |-> NoId, unrooted |-> <<>>]
      t1 == ChainAdd(t0, NewNode, NoId)
  IN [t1 EXCEPT !.root = t1.id]

(***************************************************************************)
(* treeutils.TreeBuilder and parseNewick._build                            *)
(***************************************************************************)
\* createLeaf(name): the tree with the new leaf; the leaf's id is .id
createLeaf(t, name) == ChainAdd(t, [NewNode EXCEPT !.taxon = name], NoId)

\* mergeNodes(subtrees): subtrees is a sequence of <<node id, branch>>
mergeNodes(t, subtrees) ==
  LET t1 == ChainAdd(t, NewNode, NoId)
      id == t1.id
      kid(i) == \E k \in 1..Len(subtrees) : subtrees[k][1] = i
      \* the branch a child ends with: the last pair naming it
      br(i) == subtrees[CHOOSE k \in 1..Len(subtrees) :
                          subtrees[k][1] = i /\ \A j \in (k+1)..Len(subtrees) : subtrees[j][1] # i][2]
  IN [t1 EXCEPT !.chain =
        [i \in DOMAIN t1.chain |->
           IF i = id THEN [t1.chain[i] EXCEPT !.succ = @ \o [k \in 1..Len(subtrees) |-> subtrees[k][1]]]
           ELSE IF kid(i) THEN [t1.chain[i] EXCEPT !.prev = id, !.branchlength = br(i)]
           ELSE t1.chain[i]]]

\* finalize(rootNode) that hangs every rootNode under the root
finalizeAsChild(t, rootNode) ==
  [t EXCEPT !.chain = [@ EXCEPT ![t.root].succ = <<rootNode>>, ![rootNode].prev = t.root]]
\* finalize(rootNode)
finalize(t, rootNode) ==
  LET rn == t.chain[rootNode]
  IN IF rn.succ # <<>>
     THEN LET c1 == [i \in DOMAIN t.chain |->
                       IF i = t.root
                       THEN [t.chain[i] EXCEPT !.succ = rn.succ,
                                               !.attributes = IF rn.attributes # None THEN rn.attributes ELSE @]
                       ELSE IF i \in Range(rn.succ) THEN [t.chain[i] EXCEPT !.prev = t.root]
                       ELSE t.chain[i]]
          IN ChainKill([t EXCEPT !.chain = c1], rootNode)
     ELSE [t EXCEPT !.chain = [@ EXCEPT ![t.root].succ = <<rootNode>>, ![rootNode].prev = t.root]]

RECURSIVE buildLoop(_, _, _, _)
\* the loop of _build: ids[k] is the id of the node built for record k.  A
\* child index past the list is the IndexError of t[l]; the index of a record
\* not built yet finds t[l] None, the TypeError of t[l][0]
buildLoop(nodes, k, t, ids) ==
  IF k > Len(nodes) THEN [err |-> "", t |-> t, ids |-> ids]
  ELSE
    LET x == nodes[k]
        leaf == x.subs = None \/ x.subs[1] = <<>>
        subs == IF leaf THEN <<>> ELSE x.subs[1]
        \* the list index a Python index l stands for
        at(l) == IF l < 0 THEN l + Len(nodes) ELSE l
        unbuilt == {j \in 1..Len(subs) : at(subs[j]) < 0 \/ at(subs[j]) >= k - 1}
    IN IF unbuilt # {}
       THEN With(CHOOSE j \in unbuilt : \A i \in unbuilt : j <= i, LAMBDA first :
              [err |-> IF at(subs[first]) < 0 \/ at(subs[first]) >= Len(nodes) THEN "IndexError" ELSE "TypeError",
               t |-> t, ids |-> ids])
       ELSE With(IF leaf THEN createLeaf(t, x.name)
                 ELSE mergeNodes(t, [j \in 1..Len(subs) |-> <<ids[at(subs[j]) + 1], nodes[at(subs[j]) + 1].bl>>]),
              LAMBDA t1 :
                buildLoop(nodes, k + 1,
                          IF x.attrs # None THEN [t1 EXCEPT !.chain[t1.id].attributes = x.attrs] ELSE t1,
                          Append(ids, t1.id)))

\* _build(nodes): .err is "" and .t the finished tree, or .err the exception
build(nodes) ==
  With(buildLoop(nodes, 1, EmptyTree, <<>>), LAMBDA b :
    IF b.err # "" THEN [err |-> b.err, t |-> EmptyTree]
    ELSE [err |-> "", t |-> finalize(b.t, Last(b.ids))])

\* lines 268-273: the record list of the whole text; text after the tree
\* other than ";" is a ValueError
readText(txt) ==
  With(readSubTree(txt, <<>>), LAMBDA r :
    IF r.err # "" THEN [err |-> r.err, nodes |-> <<>>]
    ELSE With(Strip(Drop(txt, r.n)), LAMBDA left :
           IF left # <<>> /\ left # <<";">> THEN [err |-> "ValueError", nodes |-> <<>>]
           ELSE [err |-> "", nodes |-> r.nodes]))

\* _parseNewickPython(txt): .err is "" and .t the tree, or .err the exception
parseNewickPython(txt) ==
  With(readText(txt), LAMBDA r :
    IF r.err # "" THEN [err |-> r.err, t |-> EmptyTree] ELSE build(r.nodes))

(***************************************************************************)
(* ITrees.Tree(tree = text): the reader of the Tree constructor.  A value  *)
(* of a node's value list is a float, None, or the dict of a [&...]        *)
(* comment.                                                                *)
(***************************************************************************)
\* s.find(c) and s.rfind(c): 0-based, -1 when c is absent
Find(s, c) == IndexOf(s, c) - 1
RFind(s, c) ==
  IF c \in Range(s) THEN (CHOOSE i \in 1..Len(s) : s[i] = c /\ \A j \in (i + 1)..Len(s) : s[j] # c) - 1
  ELSE -1
\* s.count(c)
CountOf(s, c) == Cardinality({i \in 1..Len(s) : s[i] = c})
RECURSIVE RStripChar(_, _)
\* s.rstrip(c)
RStripChar(s, c) == IF s # <<>> /\ Last(s) = c THEN RStripChar(SubSeq(s, 1, Len(s) - 1), c) ELSE s
RECURSIVE SplitOn(_, _)
\* s.split(c)
SplitOn(s, c) ==
  IF c \notin Range(s) THEN <<s>>
  ELSE <<SubSeq(s, 1, Find(s, c))>> \o SplitOn(Drop(s, Find(s, c) + 1), c)

ValNone == [k |-> "none"]
ValFloat(h) == [k |-> "float", v |-> h]
ValDict(d) == [k |-> "dict", v |-> d]
ValuesFail(e) == [err |-> e, values |-> <<>>]
ValuesOk(values) == [err |-> "", values |-> values]

RECURSIVE treeAttributesLoop(_, _)
\* the loop of ITrees._parseAttributes: s[0] of an emptied s is IndexError; a
\* name without "=" is all of s but its last character, and s stays as it is
treeAttributesLoop(s0, vals) ==
  IF s0 = <<>> THEN ValuesOk(<<ValDict(vals)>>)
  ELSE With(IF s0[1] = "," THEN Tail(s0) ELSE s0, LAMBDA s1 :
         With(Find(s1, "="), LAMBDA nameEnd :
           LET name == IF nameEnd = -1 THEN SubSeq(s1, 1, Len(s1) - 1) ELSE Take(s1, nameEnd)
               s2 == Drop(s1, nameEnd + 1)
           IN IF s2 = <<>> THEN ValuesFail("IndexError")
              ELSE IF s2[1] \in {"\"", "{"} THEN
                With(getStuff(Tail(s2), IF s2[1] = "{" THEN "}" ELSE "\""), LAMBDA e :
                  IF e = -1 THEN ValuesFail("IndexError")
                  ELSE treeAttributesLoop(Drop(s2, e + 2), DictPut(vals, <<name, SubSeq(s2, 2, e + 1)>>)))
              ELSE With(IF Find(s2, ",") = -1 THEN Len(s2) ELSE Find(s2, ","), LAMBDA e :
                     treeAttributesLoop(Drop(s2, e), DictPut(vals, <<name, Take(s2, e)>>)))))
\* ITrees._parseAttributes(s): the dict of a comment that starts with "&",
\* None for any other comment
treeParseAttributes(s) ==
  IF s = <<>> THEN ValuesFail("IndexError")
  ELSE IF s[1] = "&" THEN treeAttributesLoop(Tail(s), <<>>)
  ELSE ValuesOk(<<ValNone>>)

RECURSIVE floatsOf(_)
\* [float(t) for t in parts if t.strip()]
floatsOf(parts) ==
  IF parts = <<>> THEN ValuesOk(<<>>)
  ELSE IF Strip(parts[1]) = <<>> THEN floatsOf(Tail(parts))
  ELSE IF FloatOf(Strip(parts[1])) = None THEN ValuesFail("ValueError")
  ELSE With(floatsOf(Tail(parts)), LAMBDA rest :
         IF rest.err # "" THEN rest
         ELSE ValuesOk(<<ValFloat(FloatOf(Strip(parts[1]))[1])>> \o rest.values))

\* lines 154-159 and 161-167: the comment that starts at text[open], found by
\* _getStuff(text[from:]); the numbers are read from prefix + what follows it
commentValues(text, from, open, prefix) ==
  With(getStuff(Drop(text, from), "]"), LAMBDA lcomment :
    IF lcomment = -1 THEN ValuesFail("IndexError")
    ELSE With(treeParseAttributes(SubSeq(text, open + 2, from + lcomment)), LAMBDA attr :
           IF attr.err # "" THEN attr
           ELSE With(floatsOf(SplitOn(prefix \o Drop(text, from + lcomment + 1), ":")), LAMBDA fl :
                  IF fl.err # "" THEN fl ELSE ValuesOk(fl.values \o attr.values))))

\* Tree._get_values(text)
get_values(text0) ==
  IF text0 = <<>> THEN ValuesOk(<<ValNone>>)
  ELSE With(Strip(text0), LAMBDA text :
         IF text = <<>> THEN ValuesFail("IndexError")
         ELSE IF text[1] = "[" THEN commentValues(text, 1, 0, <<>>)
         ELSE IF text[1] = ":" /\ StripLeft(Tail(text)) # <<>> /\ StripLeft(Tail(text))[1] = "["
         THEN commentValues(text, 1 + Find(Tail(text), "["), 1 + Find(Tail(text), "["), <<":">>)
         ELSE floatsOf(SplitOn(text, ":")))

ParsedFail(e) == [err |-> e, leaf |-> TRUE, name |-> <<>>, subs |-> <<>>, values |-> <<>>]
ParsedLeaf(name, values) == [err |-> "", leaf |-> TRUE, name |-> name, subs |-> <<>>, values |-> values]
ParsedGroup(subs, values) == [err |-> "", leaf |-> FALSE, name |-> <<>>, subs |-> subs, values |-> values]

\* lines 81-93: a leaf
parseLeaf(tree) ==
  With(Find(tree, "["), LAMBDA lb :
    With(RFind(tree, ":"), LAMBDA colon :
      IF lb > -1
      THEN With(get_values(Drop(tree, lb)), LAMBDA v :
             IF v.err # "" THEN ParsedFail(v.err)
             ELSE ParsedLeaf(Take(tree, IF colon = -1 \/ lb < colon THEN lb ELSE colon), v.values))
      ELSE IF colon > -1
      THEN With(get_values(Drop(tree, colon + 1)), LAMBDA v :
             IF v.err # "" THEN ParsedFail(v.err) ELSE ParsedLeaf(Take(tree, colon), v.values))
      ELSE ParsedLeaf(tree, <<ValNone>>)))

\* plevel when the scan of lines 103-110 reaches position p (1-based; the scan
\* starts after the opening parenthesis)
plevelAt(tree, p) ==
  Cardinality({q \in 2..(p - 1) : tree[q] \in {"[", "("}})
    - Cardinality({q \in 2..(p - 1) : tree[q] \in {"]", ")"}})
\* the positions (1-based) of the commas at which lines 108-110 split
splitCommas(tree, closing) ==
  {p \in 2..closing : tree[p] = "," /\ plevelAt(tree, p) = 0}
RECURSIVE piecesFrom(_, _, _, _)
\* lines 109-111: the texts between the splitting commas and up to the closing
\* parenthesis, prev and closing 1-based
piecesFrom(tree, prev, commas, closing) ==
  IF \A p \in commas : p < prev THEN <<SubSeq(tree, prev, closing)>>
  ELSE With(CHOOSE p \in commas : p >= prev /\ \A q \in commas : q >= prev => p <= q, LAMBDA p :
         <<SubSeq(tree, prev, p - 1)>> \o piecesFrom(tree, p + 1, commas, closing))

RECURSIVE parse(_), parseAll(_)
\* Tree._parse(tree)
parse(tree0) ==
  With(Strip(tree0), LAMBDA tree :
    IF tree = <<>> THEN ParsedFail("IndexError")
    ELSE IF tree[1] # "(" THEN parseLeaf(tree)
    ELSE With(RFind(tree, ")"), LAMBDA closing :
           With(get_values(Drop(tree, closing + 1)), LAMBDA val :
             IF val.err # "" THEN ParsedFail(val.err)
             ELSE With(parseAll(piecesFrom(tree, 2, splitCommas(tree, closing), closing)), LAMBDA subclades :
                    IF subclades.err # "" THEN ParsedFail(subclades.err)
                    ELSE ParsedGroup(subclades.subs, val.values)))))
\* line 112: [self._parse(subtree) for subtree in subtrees]
parseAll(subtrees) ==
  IF subtrees = <<>> THEN [err |-> "", subs |-> <<>>]
  ELSE With(parse(subtrees[1]), LAMBDA first :
         IF first.err # "" THEN [err |-> first.err, subs |-> <<>>]
         ELSE With(parseAll(Tail(subtrees)), LAMBDA rest :
                IF rest.err # "" THEN rest ELSE [err |-> "", subs |-> <<first>> \o rest.subs]))

\* lines 121-136: the NodeData of a parsed subtree; values is not empty
nodeDataOf(values) ==
  LET hasDict == Last(values).k = "dict"
      vals == IF hasDict THEN SubSeq(values, 1, Len(values) - 1) ELSE values
      opt(v) == IF v.k = "float" THEN Some(v.v) ELSE None
  IN [NewNode EXCEPT
        !.attributes = IF hasDict THEN Some(Last(values).v) ELSE None,
        !.support = IF Len(vals) >= 2 THEN opt(vals[1]) ELSE None,
        !.branchlength = IF Len(vals) >= 2 /\ opt(vals[2]) # None THEN opt(vals[2])
                         ELSE IF Len(vals) = 1 /\ opt(vals[1]) # None THEN opt(vals[1])
                         ELSE @]

RECURSIVE add_subtree(_, _, _)
\* Tree._add_subtree(parent_id, tree): st[1][-1] of an empty value list is
\* IndexError
add_subtree(t, parent_id, sts) ==
  IF sts = <<>> THEN [err |-> "", t |-> t]
  ELSE IF sts[1].values = <<>> THEN [err |-> "IndexError", t |-> t]
  ELSE IF sts[1].leaf
  THEN With(ChainAdd(t, [nodeDataOf(sts[1].values) EXCEPT !.taxon = Some(Strip(sts[1].name))], parent_id),
         LAMBDA t1 : add_subtree(t1, parent_id, Tail(sts)))
  ELSE With(ChainAdd(t, nodeDataOf(sts[1].values), parent_id), LAMBDA t1 :
         With(add_subtree(t1, t1.id, sts[1].subs), LAMBDA below :
           IF below.err # "" THEN below ELSE add_subtree(below.t, parent_id, Tail(sts))))

RECURSIVE addCharacters(_, _)
\* line 71 on the text of a leaf: for st in tree goes over the characters of
\* the name, and each of them becomes a leaf
addCharacters(t, name) ==
  IF name = <<>> THEN t
  ELSE With(ChainAdd(t, [NewNode EXCEPT !.taxon = Some(Strip(<<name[1]>>))], t.root), LAMBDA t1 :
         addCharacters(t1, Tail(name)))

TreeFail(e) == [err |-> e, t |-> EmptyTree]
\* Tree(tree = text): .err is "" and .t the tree, or .err the exception
Tree(text) ==
  IF text = <<>> THEN [err |-> "", t |-> EmptyTree]
  ELSE With(RStripChar(Strip(text), ";"), LAMBDA tree :
         IF CountOf(tree, "(") # CountOf(tree, ")") THEN TreeFail("TreeError")
         ELSE With(parse(tree), LAMBDA st :
                IF st.err # "" THEN TreeFail(st.err)
                ELSE IF st.values = <<>> THEN TreeFail("IndexError")
                ELSE With(IF Last(st.values).k = "dict"
                          THEN [EmptyTree EXCEPT !.chain[EmptyTree.root].attributes = Some(Last(st.values).v)]
                          ELSE EmptyTree, LAMBDA t0 :
                       IF st.leaf THEN [err |-> "", t |-> addCharacters(t0, st.name)]
                       ELSE With(add_subtree(t0, t0.root, st.subs), LAMBDA r :
                              IF r.err # "" THEN TreeFail(r.err) ELSE r))))

(***************************************************************************)
(* ITrees.Tree: queries                                                    *)
(***************************************************************************)
\* get_terminals(): the ids of the nodes without children, in all_ids order
get_terminals(t) == SelectSeq(all_ids(t), LAMBDA i : t.chain[i].succ = <<>>)

RECURSIVE get_taxa_loop(_, _, _)
get_taxa_loop(t, waiting, tx) ==
  IF waiting = <<>> THEN tx
  ELSE LET n == waiting[1]
       IN IF t.chain[n].succ = <<>>
          THEN get_taxa_loop(t, Tail(waiting), Append(tx, n))
          ELSE get_taxa_loop(t, Tail(waiting) \o t.chain[n].succ, tx)
\* get_taxa(node_id, asIDs=True): the leaves under node_id, breadth first
get_taxa_ids(t, node_id) == get_taxa_loop(t, <<node_id>>, <<>>)
\* get_taxa(node_id): their taxa
get_taxa(t, node_id) ==
  LET ids == get_taxa_ids(t, node_id) IN [k \in 1..Len(ids) |-> t.chain[ids[k]].taxon]
\* get_taxa(): the taxa of all terminal nodes of the chain
get_taxa_all(t) ==
  LET ids == get_terminals(t) IN [k \in 1..Len(ids) |-> t.chain[ids[k]].taxon]

\* search_taxon(taxon): the first id (in dict order) whose taxon it is, else None
search_taxon(t, taxon) ==
  LET hits == SelectSeq(all_ids(t), LAMBDA i : t.chain[i].taxon = taxon)
  IN IF hits = <<>> THEN NoId ELSE hits[1]

\* the loop without its descent into the subnodes
is_monophyletic_fromRootOnly(t, taxon_set, node_id) ==
  IF Range(get_taxa(t, node_id)) = taxon_set THEN node_id ELSE -1
RECURSIVE is_monophyletic_from(_, _, _)
is_monophyletic_from(t, taxon_set, node_id) ==
  IF Range(get_taxa(t, node_id)) = taxon_set THEN node_id
  ELSE LET down == SelectSeq(t.chain[node_id].succ,
                             LAMBDA sub : taxon_set \subseteq Range(get_taxa(t, sub)))
       IN IF down = <<>> THEN -1 ELSE is_monophyletic_from(t, taxon_set, down[1])
\* is_monophyletic(taxon_list): the node id, or -1
is_monophyletic(t, taxon_set) == is_monophyletic_from(t, taxon_set, t.root)

RECURSIVE trace(_, _)
\* [root] + Chain.trace(root, node): the ids on the path from the root to node
trace(t, node) ==
  IF node = t.root \/ t.chain[node].prev = NoId THEN <<node>>
  ELSE Append(trace(t, t.chain[node].prev), node)

\* common_ancestor(node1, node2): the last id of node1's path that is on node2's
common_ancestor(t, node1, node2) ==
  LET l1 == trace(t, node1)
      l2 == trace(t, node2)
  IN Last(SelectSeq(l1, LAMBDA n : n \in Range(l2)))

\* lines 335-340: the clades of the nodes with children whose support is
\* true and at least threshold, each <<taxa, support>>, in all_ids order
supportedClades(t, threshold) ==
  LET ids == SelectSeq(all_ids(t), LAMBDA n :
                /\ t.chain[n].succ # <<>>
                /\ t.chain[n].support # None
                /\ t.chain[n].support[1] # 0
                /\ t.chain[n].support[1] >= threshold)
  IN [k \in 1..Len(ids) |-> <<Range(get_taxa(t, ids[k])), t.chain[ids[k]].support>>]

\* lines 343-348: the entry of the pair c1, c2 in conflict, if any
conflictOf(c1, c2, missing1, missing2) ==
  LET st1 == c1[1]
      st2 == c2[1]
      intersect == st1 \cap st2
      notin1 == st2 \ st1
      notin2 == st1 \ st2
  IN IF ~(st1 \subseteq st2) /\ ~(st2 \subseteq st1)
        /\ intersect # {} /\ ~(notin1 \subseteq missing1 \/ notin2 \subseteq missing2)
     THEN <<<<st1, c1[2], st2, c2[2], intersect, notin1, notin2>>>>
     ELSE <<>>

\* is_compatible(tree2, threshold, strict): [ret, err], ret the list of
\* conflicts; a taxon
\* None among the missing ones makes ','.join raise
is_compatible(t, tree2, threshold, strict) ==
  LET missing2 == Range(get_taxa_all(t)) \ Range(get_taxa_all(tree2))
      missing1 == Range(get_taxa_all(tree2)) \ Range(get_taxa_all(t))
      t1 == supportedClades(t, threshold)
      t2 == supportedClades(tree2, threshold)
  IN IF strict /\ (missing1 # {} \/ missing2 # {})
     THEN [ret |-> <<>>, err |-> IF None \in missing1 \cup missing2 THEN "TypeError" ELSE "TreeError"]
     ELSE [ret |-> Concat([i \in 1..Len(t1) |->
                     Concat([j \in 1..Len(t2) |-> conflictOf(t1[i], t2[j], missing1, missing2)])]),
           err |-> ""]

(***************************************************************************)
(* ITrees.Tree: prune, unroot, root_with_outgroup.  An operation returns   *)
(* [t, ret, err]: the tree as the call leaves it, the value returned, and  *)
(* "" or the exception raised.                                             *)
(***************************************************************************)
Outcome(t, ret, err) == [t |-> t, ret |-> ret, err |-> err]

\* lines 239-243: prev, left with one child, is collapsed and its length added
\* to the child's
pruneCollapse(t1, prev) ==
  LET succ == t1.chain[prev].succ[1]
      a == t1.chain[prev].branchlength
      b == t1.chain[succ].branchlength
  IN IF a = None \/ b = None THEN Outcome(t1, NoId, "TypeError")
     ELSE With(ChainCollapse(t1, prev), LAMBDA t2 :
            Outcome([t2 EXCEPT !.chain[succ].branchlength = Some(a[1] + b[1])], prev, ""))

\* prune(taxon)
prune(t, taxon) ==
  With(search_taxon(t, taxon), LAMBDA id :
    IF id = NoId THEN Outcome(t, NoId, "TreeError")
    ELSE IF id \notin Range(get_terminals(t)) THEN Outcome(t, NoId, "TreeError")
    ELSE
      With(t.chain[id].prev, LAMBDA prev :
        With(ChainKill(ChainUnlink(t, id), id), LAMBDA t1 :
          IF prev = NoId THEN Outcome(t1, prev, "TreeError")     \* node(None) in the test below
          ELSE IF prev # t1.root /\ Len(t1.chain[prev].succ) = 1 THEN pruneCollapse(t1, prev)
          ELSE Outcome(t1, prev, ""))))

RECURSIVE get_branches(_, _)
\* unroot()'s _get_branches(node): <<node, child, branchlength, support>>, preorder
get_branches(t, node) ==
  LET kids == t.chain[node].succ
  IN Concat([k \in 1..Len(kids) |->
       <<<<node, kids[k], t.chain[kids[k]].branchlength, t.chain[kids[k]].support>>>>
       \o get_branches(t, kids[k])])

\* the two branches become one that has the length of the first only
joinRootBranchesFirstLength(t, b1, b2, rest) ==
  IF b1[3] = None \/ b2[3] = None
  THEN Outcome([t EXCEPT !.unrooted = rest], NoId, "TypeError")
  ELSE
    LET done(sup) == Outcome([t EXCEPT !.unrooted = Append(rest, <<b1[2], b2[2], b1[3], sup>>)], NoId, "")
    IN IF b1[4] = None THEN done(b2[4])
       ELSE IF b2[4] = None THEN done(b1[4])
       ELSE IF b1[4] = b2[4] THEN done(b1[4])
       ELSE IF b1[4][1] = 0 \/ b2[4][1] = 0 THEN done(Some(b1[4][1] + b2[4][1]))
       ELSE Outcome([t EXCEPT !.unrooted = rest], NoId, "TreeError")

\* lines 603-623: the two branches b1, b2 of a bifurcating root become one;
\* rest is the other branches
joinRootBranches(t, b1, b2, rest) ==
  IF b1[3] = None \/ b2[3] = None
  THEN Outcome([t EXCEPT !.unrooted = rest], NoId, "TypeError")
  ELSE
    LET len == Some(b1[3][1] + b2[3][1])
        done(sup) == Outcome([t EXCEPT !.unrooted = Append(rest, <<b1[2], b2[2], len, sup>>)], NoId, "")
    IN IF b1[4] = None THEN done(b2[4])
       ELSE IF b2[4] = None THEN done(b1[4])
       ELSE IF b1[4] = b2[4] THEN done(b1[4])
       ELSE IF b1[4][1] = 0 \/ b2[4][1] = 0 THEN done(Some(b1[4][1] + b2[4][1]))
       ELSE Outcome([t EXCEPT !.unrooted = rest], NoId, "TreeError")

\* unroot(): sets t.unrooted
unroot(t) ==
  With(get_branches(t, t.root), LAMBDA all :
    IF Len(t.chain[t.root].succ) # 2 THEN Outcome([t EXCEPT !.unrooted = all], NoId, "")
    ELSE
      With(SelectSeq(all, LAMBDA b : t.root \in {b[1], b[2]}), LAMBDA rootbranches :
        joinRootBranches(t, rootbranches[1], rootbranches[2],
                         RemoveFirst(RemoveFirst(all, rootbranches[1]), rootbranches[2]))))

RECURSIVE connect_subtree(_, _, _), connect_all(_, _, _)
\* the positions of the branches of t.unrooted that join nodes a and b
branchesJoining(t, a, b) ==
  SelectSeq([i \in 1..Len(t.unrooted) |-> i],
            LAMBDA i : a \in {t.unrooted[i][1], t.unrooted[i][2]} /\ b \in {t.unrooted[i][1], t.unrooted[i][2]})

\* root_with_outgroup()'s _connect_subtree(parent, child)
connect_subtree(t, parent, child) ==
  With(branchesJoining(t, parent, child), LAMBDA hit :
    IF hit = <<>> THEN Outcome(t, NoId, "TreeError")
    ELSE
      With(ChainLink([t EXCEPT !.unrooted = RemoveAt(@, hit[1])], parent, child), LAMBDA t1 :
        With([t1 EXCEPT !.chain[child].branchlength = t.unrooted[hit[1]][3],
                        !.chain[child].support = t.unrooted[hit[1]][4]], LAMBDA t2 :
          connect_all(t2, child, SelectSeq(t2.unrooted, LAMBDA b : child \in {b[1], b[2]})))))
\* the loop, were it to stop after the first of child_branches
connect_allFirstOnly(t, child, bs) ==
  IF bs = <<>> THEN Outcome(t, NoId, "")
  ELSE connect_subtree(t, child, IF child = bs[1][1] THEN bs[1][2] ELSE bs[1][1])
\* the loop over child_branches
connect_all(t, child, bs) ==
  IF bs = <<>> THEN Outcome(t, NoId, "")
  ELSE With(connect_subtree(t, child, IF child = bs[1][1] THEN bs[1][2] ELSE bs[1][1]), LAMBDA r :
         IF r.err # "" THEN r ELSE connect_all(r.t, child, Tail(bs)))

\* lines 683-689: a node left without parent is the old root and is killed
killOldRoot(t) ==
  With(SelectSeq(all_ids(t), LAMBDA i : t.chain[i].prev = NoId /\ i # t.root), LAMBDA oldroot :
    IF Len(oldroot) > 1 THEN Outcome(t, NoId, "TreeError")
    ELSE IF Len(oldroot) = 1 THEN Outcome(ChainKill(t, oldroot[1]), t.root, "")
    ELSE Outcome(t, t.root, ""))

\* lines 670-682: the links are dropped, a new root is added, and the ingroup
\* and the outgroup are hung under it branch by branch
rebuild(t, root_branch, outgroup_node) ==
  LET ingroup_node == IF outgroup_node = root_branch[2] THEN root_branch[1] ELSE root_branch[2]
  IN With(ChainAdd([t EXCEPT !.chain = [i \in DOMAIN @ |-> [@[i] EXCEPT !.prev = NoId, !.succ = <<>>]]],
                   NewNode, NoId), LAMBDA t2 :
       With(connect_subtree([t2 EXCEPT !.root = t2.id,
                                       !.unrooted = @ \o <<<<t2.id, ingroup_node, root_branch[3], root_branch[4]>>,
                                                           <<t2.id, outgroup_node, Some(0), Some(0)>>>>],
                            t2.id, ingroup_node), LAMBDA r1 :
         IF r1.err # "" THEN r1
         ELSE With(connect_subtree(r1.t, t2.id, outgroup_node), LAMBDA r2 :
                IF r2.err # "" THEN r2 ELSE killOldRoot(r2.t))))

\* lines 658-669: the tree is unrooted and the branch between the outgroup and
\* its parent taken out
rerootAt(t, outgroup_node) ==
  With(unroot(t), LAMBDA u :
    IF u.err # "" THEN u
    ELSE With(branchesJoining(u.t, outgroup_node, t.chain[outgroup_node].prev), LAMBDA hit :
           IF hit = <<>> THEN Outcome(u.t, NoId, "TreeError")
           ELSE rebuild([u.t EXCEPT !.unrooted = RemoveAt(@, hit[1])], u.t.unrooted[hit[1]], outgroup_node)))

\* root_with_outgroup(outgroup) with self.unroot() moved before the checks
root_with_outgroupUnrootFirst(t, outgroup) ==
  With(is_monophyletic(t, outgroup), LAMBDA outgroup_node :
    IF outgroup_node = -1 THEN Outcome(unroot(t).t, -1, "")
    ELSE IF (Len(t.chain[t.root].succ) = 2 /\ outgroup_node \in Range(t.chain[t.root].succ))
            \/ outgroup_node = t.root
    THEN Outcome(unroot(t).t, t.root, "")
    ELSE rerootAt(t, outgroup_node))
\* root_with_outgroup(outgroup) for an outgroup that is not None
root_with_outgroup(t, outgroup) ==
  With(is_monophyletic(t, outgroup), LAMBDA outgroup_node :
    IF outgroup_node = -1 THEN Outcome(t, -1, "")
    ELSE IF (Len(t.chain[t.root].succ) = 2 /\ outgroup_node \in Range(t.chain[t.root].succ))
            \/ outgroup_node = t.root
    THEN Outcome(t, t.root, "")
    ELSE rerootAt(t, outgroup_node))

(***************************************************************************)
(* Tree.toNewick                                                           *)
(***************************************************************************)
TextOk(txt0) == [err |-> "", txt |-> txt0]
TextFail(e) == [err |-> e, txt |-> <<>>]

RECURSIVE AttrItems(_)
\* the loop over the attributes: "name=value," for each; str(value)[0] of an
\* empty value is an IndexError
AttrItems(attrs) ==
  IF attrs = <<>> THEN TextOk(<<>>)
  ELSE
    LET a == attrs[1][1]
        vl == attrs[1][2]
        rest == AttrItems(Tail(attrs))
    IN IF vl = <<>> THEN TextFail("IndexError")
       ELSE IF rest.err # "" THEN rest
       ELSE TextOk(a \o <<"=">>
                     \o (IF vl[1] # "{" /\ IndexOf(vl, ",") # 0 THEN <<"{">> \o vl \o <<"}">> ELSE vl)
                     \o <<",">> \o rest.txt)

Reverse(seq) == [i \in 1..Len(seq) |-> seq[Len(seq) + 1 - i]]

\* the "[&...]" text of a node's attributes, "" without any; the dict is
\* iterated first to last, or last to first when backwards
AttrText(node, backwards) ==
  IF node.attributes = None \/ node.attributes[1] = <<>> THEN TextOk(<<>>)
  ELSE LET items == AttrItems(IF backwards THEN Reverse(node.attributes[1]) ELSE node.attributes[1])
       IN IF items.err # "" THEN items
          ELSE TextOk(<<"[", "&">> \o Take(items.txt, Len(items.txt) - 1) \o <<"]">>)

RECURSIVE toNewick(_, _, _, _, _, _)
\* t.toNewick(nodeId, topologyOnly, attributes, includeStem); attributes is
\* TRUE for attributes='attributes' and FALSE for None
toNewick(t, nodeId, topologyOnly, attributes, includeStem, backwards) ==
  LET node == t.chain[nodeId]
      reps == [k \in 1..Len(node.succ) |->
                 toNewick(t, node.succ[k], topologyOnly, attributes, TRUE, backwards)]
      failed == {k \in 1..Len(node.succ) : reps[k].err # ""}
      rep == IF node.succ = <<>>
             THEN (IF node.taxon # None THEN node.taxon[1] ELSE <<>>)
             ELSE <<"(">> \o Join(SortStrings([k \in 1..Len(reps) |-> reps[k].txt]), <<",">>) \o <<")">>
      at == IF attributes THEN AttrText(node, backwards) ELSE TextOk(<<>>)
      stem == IF ~topologyOnly /\ includeStem /\ node.branchlength # None
              THEN <<":">> \o ReprFloat(node.branchlength[1]) ELSE <<>>
  IN IF failed # {} THEN reps[CHOOSE k \in failed : \A j \in failed : k <= j]
     ELSE IF at.err # "" THEN at
     ELSE TextOk(rep \o at.txt \o stem)

(***************************************************************************)
(* ITrees.consensus.  The clade table is the list of its [key, p] entries  *)
(* in the order the keys came in; a key, the text of a sorted list of      *)
(* taxa, is that list.  The result is [err, ret, trees, clades]: the       *)
(* exception raised, the consensus tree, the input trees as the call       *)
(* leaves them, and the table before the weeding.                          *)
(***************************************************************************)
RECURSIVE walk(_, _)
\* _walk(node): the ids below node, parents first
walk(t, node) ==
  Concat([k \in 1..Len(t.chain[node].succ) |->
            <<t.chain[node].succ[k]>> \o walk(t, t.chain[node].succ[k])])

\* subclade_taxa.sort(): None sorts before every string
SortTaxa(tx) ==
  With(SelectSeq(tx, LAMBDA x : x # None), LAMBDA named :
    With(SortStrings([k \in 1..Len(named) |-> named[k][1]]), LAMBDA names :
      SelectSeq(tx, LAMBDA x : x = None) \o [k \in 1..Len(names) |-> Some(names[k])]))

\* clades[key] += w, or clades[key] = w for a new key
CladeAdd(clades, key, w) ==
  IF \E k \in 1..Len(clades) : clades[k].key = key
  THEN With(CHOOSE k \in 1..Len(clades) : clades[k].key = key, LAMBDA k :
         With(clades[k].p, LAMBDA p :
           With(FloatAdd(p, w), LAMBDA sum : [clades EXCEPT ![k].p = sum])))
  ELSE Append(clades, [key |-> key, p |-> w])

RECURSIVE countNodes(_, _, _, _)
\* lines 711-718: the nodes of one tree
countNodes(t, nodes, w, clades) ==
  IF nodes = <<>> THEN clades
  ELSE With(SortTaxa(get_taxa(t, nodes[1])), LAMBDA key :
         With(CladeAdd(clades, key, w), LAMBDA c : countNodes(t, Tail(nodes), w, c)))

ConsensusFail(e, trees, clades) == [err |-> e, ret |-> None, trees |-> trees, clades |-> clades]

RECURSIVE countTrees(_, _, _, _, _, _)
\* lines 704-718: the trees from the k-th on
countTrees(trees, k, alltaxa, outgroup, w, clades) ==
  IF k > Len(trees) THEN [err |-> "", ret |-> None, trees |-> trees, clades |-> clades]
  ELSE IF alltaxa # Range(get_taxa_all(trees[k])) THEN ConsensusFail("TreeError", trees, clades)
  ELSE With(IF outgroup = None THEN Outcome(trees[k], trees[k].root, "")
            ELSE root_with_outgroup(trees[k], outgroup[1]), LAMBDA r :
         With([trees EXCEPT ![k] = r.t], LAMBDA rooted :
           IF r.err # "" THEN ConsensusFail(r.err, rooted, clades)
           ELSE With(walk(r.t, r.t.root), LAMBDA nodes :
                  With(countNodes(r.t, nodes, w, clades), LAMBDA c :
                    countTrees(rooted, k + 1, alltaxa, outgroup, w, c)))))

RECURSIVE addClades(_, _)
\* lines 727-731: one isolated node per clade, its taxon the set of the key
addClades(t, items) ==
  IF items = <<>> THEN t
  ELSE With(ChainAdd(t, Node(NoId, <<>>, Range(items[1].key), Some(0), Some(items[1].p), None), NoId),
         LAMBDA t1 : addClades(t1, Tail(items)))

RECURSIVE InsertBySize(_, _, _)
InsertBySize(t, sorted, x) ==
  IF sorted = <<>> THEN <<x>>
  ELSE IF Cardinality(t.chain[x].taxon) < Cardinality(t.chain[sorted[1]].taxon) THEN <<x>> \o sorted
  ELSE <<sorted[1]>> \o InsertBySize(t, Tail(sorted), x)
RECURSIVE SortBySize(_, _)
\* consensus_ids.sort(...) by the number of taxa; the sort is stable
SortBySize(t, ids) ==
  IF ids = <<>> THEN <<>>
  ELSE With(SortBySize(t, Take(ids, Len(ids) - 1)), LAMBDA sorted : InsertBySize(t, sorted, Last(ids)))

RECURSIVE linkClades(_, _, _)
\* lines 739-758: every node but the last goes under the first later node
\* whose taxa include its own
linkClades(t, ids, i) ==
  IF i >= Len(ids) THEN [err |-> "", t |-> [t EXCEPT !.chain[Last(ids)].taxon = None]]
  ELSE With(SelectSeq(Drop(ids, i), LAMBDA parent : t.chain[ids[i]].taxon \subseteq t.chain[parent].taxon),
         LAMBDA found :
           IF found = <<>> THEN [err |-> "SystemExit", t |-> t]
           ELSE With([t EXCEPT !.chain[ids[i]].taxon =
                        IF Cardinality(@) = 1 THEN CHOOSE x \in @ : TRUE ELSE None], LAMBDA t1 :
                  With(ChainLink(t1, found[1], ids[i]), LAMBDA t2 : linkClades(t2, ids, i + 1))))

\* lines 719-759: the tree of the clades that are left, the entries of the dict
\* taken in the order they came in, or backwards
buildConsensus(counted, alltaxa, threshold, backwards) ==
  With(SelectSeq(counted.clades, LAMBDA c : ~FxLess(c.p, threshold)), LAMBDA kept :
    With(addClades(EmptyTree, IF backwards THEN Reverse(kept) ELSE kept), LAMBDA t0 :
      With([t0 EXCEPT !.chain[t0.root].support = None, !.chain[t0.root].taxon = alltaxa], LAMBDA t1 :
        With(SortBySize(t1, all_ids(t1)), LAMBDA ids :
          With(linkClades(t1, ids, 1), LAMBDA linked :
            [counted EXCEPT !.err = linked.err, !.ret = IF linked.err = "" THEN Some(linked.t) ELSE None])))))

\* consensus(trees, threshold, outgroup), the threshold a float
consensus(trees, threshold, outgroup, backwards) ==
  IF Len(trees) = 0 THEN [err |-> "", ret |-> None, trees |-> trees, clades |-> <<>>]
  ELSE With(Range(get_taxa_all(trees[1])), LAMBDA alltaxa :
         With(FloatInverse(Len(trees)), LAMBDA w :
           With(countTrees(trees, 1, alltaxa, outgroup, w, <<>>), LAMBDA counted :
             IF counted.err # "" THEN counted
             ELSE buildConsensus(counted, alltaxa, threshold, backwards))))

(***************************************************************************)
(* treeutils.CAhelper.  The helper keeps its figures in the data of the    *)
(* tree's nodes: rh, tl, level, path, terms and cladesize, and pathset on  *)
(* the terminals; the tree gets a size, and dterms goes with it.           *)
(***************************************************************************)
RECURSIVE getPostOrder(_, _)
\* getPostOrder(tree, nodeId): the ids, children before their parent
getPostOrder(t, nodeId) ==
  Concat([k \in 1..Len(t.chain[nodeId].succ) |-> getPostOrder(t, t.chain[nodeId].succ[k])])
    \o <<nodeId>>

RECURSIVE SumSeq(_)
SumSeq(xs) == IF xs = <<>> THEN 0 ELSE xs[1] + SumSeq(Tail(xs))
MaxOf(xs) == CHOOSE x \in Range(xs) : \A y \in Range(xs) : y <= x

\* lines 848-854: a terminal
caLeaf(t, n) ==
  [t EXCEPT !.chain[n] = [tl |-> 0, rh |-> 0, level |-> 0, path |-> <<>>, terms |-> <<n>>,
                          cladesize |-> 0] @@ @,
            !.dterms = DictPut(@, <<t.chain[n].taxon, n>>)]

RECURSIVE appendPath(_, _, _)
\* lines 865-866: n goes on the path of each of its terminals
appendPath(t, terms, n) ==
  IF terms = <<>> THEN t
  ELSE With([t EXCEPT !.chain[terms[1]].path = Append(@, n)], LAMBDA t1 : appendPath(t1, Tail(terms), n))

\* lines 859-863, once the children have their branch lengths set
caFigures(t, n, ch, rh) ==
  With([k \in 1..Len(ch) |-> t.chain[ch[k]]], LAMBDA c :
    With(Concat([k \in 1..Len(c) |-> c[k].terms]), LAMBDA terms :
      With([t EXCEPT !.chain[n] =
              [rh |-> rh,
               tl |-> SumSeq([k \in 1..Len(c) |-> c[k].tl + c[k].branchlength[1]]),
               level |-> MaxOf([k \in 1..Len(c) |-> c[k].level]) + 1,
               terms |-> terms,
               cladesize |-> Len(terms)] @@ @], LAMBDA t1 :
        Outcome(appendPath(t1, terms, n), NoId, ""))))

\* a node with children, were the branch lengths of the children left alone
caInnerLengthsKept(t, n) ==
  With(t.chain[n].succ, LAMBDA ch :
    IF \E k \in 1..Len(ch) : t.chain[ch[k]].branchlength = None THEN Outcome(t, NoId, "TypeError")
    ELSE With(MaxOf([k \in 1..Len(ch) |-> t.chain[ch[k]].rh + t.chain[ch[k]].branchlength[1]]), LAMBDA rh :
           caFigures(t, n, ch, rh)))

\* lines 856-866: a node with children; a child without a branch length
\* makes c.rh + c.branchlength raise
caInner(t, n) ==
  With(t.chain[n].succ, LAMBDA ch :
    IF \E k \in 1..Len(ch) : t.chain[ch[k]].branchlength = None THEN Outcome(t, NoId, "TypeError")
    ELSE With(MaxOf([k \in 1..Len(ch) |-> t.chain[ch[k]].rh + t.chain[ch[k]].branchlength[1]]), LAMBDA rh :
           With([t EXCEPT !.chain = [i \in DOMAIN t.chain |->
                                       IF i \in Range(ch)
                                       THEN [t.chain[i] EXCEPT !.branchlength = Some(rh - t.chain[i].rh)]
                                       ELSE t.chain[i]]], LAMBDA t1 :
             caFigures(t1, n, ch, rh))))

\* lines 866-867: croot of node n under the threshold th, None for no
\* threshold; a node that was given no rh, or one at or below th that has no
\* branch length, makes the test raise
caRoot(t, n, th) ==
  IF th = None THEN Outcome(t, NoId, "")
  ELSE IF "rh" \notin DOMAIN t.chain[n] THEN Outcome(t, NoId, "AttributeError")
  ELSE IF ~(t.chain[n].rh <= th[1])
       THEN Outcome([t EXCEPT !.chain[n] = [croot |-> FALSE] @@ @], NoId, "")
  ELSE IF t.chain[n].branchlength = None THEN Outcome(t, NoId, "TypeError")
  ELSE Outcome([t EXCEPT !.chain[n] =
                  [croot |-> t.chain[n].rh + t.chain[n].branchlength[1] > th[1]] @@ @], NoId, "")

\* lines 845-864: the figures of node n
caNode(t, n, nterms) ==
  IF t.chain[n].succ = <<>> THEN Outcome(caLeaf(t, n), NoId, "")
  ELSE IF n = t.root /\ nterms = 1 THEN Outcome(t, NoId, "")
  ELSE caInner(t, n)

RECURSIVE caNodes(_, _, _, _)
\* lines 844-867: the nodes in post order
caNodes(t, nodes, nterms, th) ==
  IF nodes = <<>> THEN Outcome(t, NoId, "")
  ELSE With(caNode(t, nodes[1], nterms), LAMBDA r :
         IF r.err # "" THEN r
         ELSE With(caRoot(r.t, nodes[1], th), LAMBDA c :
                IF c.err # "" THEN c ELSE caNodes(c.t, Tail(nodes), nterms, th)))

\* lines 872-874: the path sets of the terminals
pathSets(t) ==
  [t EXCEPT !.chain = [i \in DOMAIN @ |->
                         IF @[i].succ = <<>> THEN [pathset |-> Range(@[i].path)] @@ @[i] ELSE @[i]]]

\* CAhelper(tr, th), th None when it is not given
CAhelper(t, th) ==
  With(Len(get_terminals(t)), LAMBDA nterms :
    With([size |-> nterms, dterms |-> <<>>, th |-> th] @@ t, LAMBDA t0 :
      With(getPostOrder(t0, t0.root), LAMBDA nodes :
        With(caNodes(t0, nodes, nterms, th), LAMBDA r :
          IF r.err # "" THEN r ELSE Outcome(pathSets(r.t), NoId, "")))))

RECURSIVE Intersection(_)
\* reduce(set.intersection, sets)
Intersection(sets) == IF Len(sets) = 1 THEN sets[1] ELSE sets[1] \cap Intersection(Tail(sets))

\* min(n, key = lambda x : x.data.level)
minLevel(t, v) == CHOOSE a \in v : \A x \in v : t.chain[a].level <= t.chain[x].level

\* getCA(txNodes), the nodes by their ids; min of an empty list raises
getCA(t, txNodes) ==
  IF Len(txNodes) = 1 THEN Outcome(t, txNodes[1], "")
  ELSE With(Intersection([k \in 1..Len(txNodes) |-> t.chain[txNodes[k]].pathset]), LAMBDA v :
         IF v = {} THEN Outcome(t, NoId, "ValueError") ELSE Outcome(t, minLevel(t, v), ""))

(***************************************************************************)
(* treeutils.treeDiameterInfo and rootAtMidpoint.  A (distance, tip) pair  *)
(* is <<d, tip>>, the tip None written NoId; the mtip and mtips that       *)
(* treeDiameterInfo puts on the nodes and takes off again are the function *)
(* m.  Tuples of the same distance compare by their Node objects, in an    *)
(* order the code does not fix: by id, or against it.                      *)
(***************************************************************************)
MinusOne == -2

\* max(n.data.mtips)
maxTip(mtips, byId) ==
  CHOOSE a \in Range(mtips) : \A b \in Range(mtips) :
    b[1] < a[1] \/ (b[1] = a[1] /\ (IF byId THEN b[2] <= a[2] ELSE b[2] >= a[2]))

RECURSIVE tipData(_, _, _, _)
\* lines 582-588: mtip and mtips of the nodes, in post order; _maxTipPath of
\* a child without a branch length raises
tipData(t, nodes, m, byId) ==
  IF nodes = <<>> THEN [err |-> "", m |-> m]
  ELSE IF t.chain[nodes[1]].succ = <<>>
  THEN With((nodes[1] :> [mtip |-> <<0, nodes[1]>>, mtips |-> <<>>]) @@ m, LAMBDA m1 :
         tipData(t, Tail(nodes), m1, byId))
  ELSE IF \E c \in Range(t.chain[nodes[1]].succ) : t.chain[c].branchlength = None
  THEN [err |-> "TypeError", m |-> m]
  ELSE With([k \in 1..Len(t.chain[nodes[1]].succ) |->
               <<m[t.chain[nodes[1]].succ[k]].mtip[1] + t.chain[t.chain[nodes[1]].succ[k]].branchlength[1],
                 m[t.chain[nodes[1]].succ[k]].mtip[2]>>], LAMBDA mtips :
         With((nodes[1] :> [mtip |-> maxTip(mtips, byId), mtips |-> mtips]) @@ m, LAMBDA m1 :
           tipData(t, Tail(nodes), m1, byId)))

\* lines 565-568: the first of the longest tip paths of np's children other
\* than n, (-1, None) without any
bestSibling(t, m, np, n) ==
  With(t.chain[np].succ, LAMBDA succ :
    With({k \in 1..Len(succ) : succ[k] # n}, LAMBDA others :
      IF others = {} THEN <<MinusOne, NoId>>
      ELSE m[np].mtips[CHOOSE k \in others : \A j \in others :
                         \/ m[np].mtips[j][1] < m[np].mtips[k][1]
                         \/ (m[np].mtips[j][1] = m[np].mtips[k][1] /\ k <= j)]))

RECURSIVE maxTipPartner(_, _, _, _, _)
\* _maxTipPartner(tree, x), from node n on with h the way up so far:
\* [d, tip, np], np None written NoId
maxTipPartner(t, m, n, h, mx) ==
  IF n = t.root THEN mx
  ELSE With(h + t.chain[n].branchlength[1], LAMBDA h1 :
         With(bestSibling(t, m, t.chain[n].prev, n), LAMBDA l :
           maxTipPartner(t, m, t.chain[n].prev, h1,
                         IF l[1] + h1 > mx.d THEN [d |-> l[1] + h1, tip |-> l[2], np |-> t.chain[n].prev]
                         ELSE mx)))

NoPartner == [d |-> MinusOne, tip |-> NoId, np |-> NoId]
DiameterFail(e) == [err |-> e, diam |-> 0, tip1 |-> NoId, tip2 |-> NoId, anode |-> NoId]

\* treeDiameterInfo(tree): mx[1].id of a tip that is None raises
treeDiameterInfo(t, byId) ==
  With(tipData(t, getPostOrder(t, t.root), <<>>, byId), LAMBDA data :
    IF data.err # "" THEN DiameterFail(data.err)
    ELSE With(maxTipPartner(t, data.m, get_terminals(t)[1], 0, NoPartner), LAMBDA mx :
           IF mx.tip = NoId THEN DiameterFail("AttributeError")
           ELSE With(maxTipPartner(t, data.m, mx.tip, 0, NoPartner), LAMBDA o :
                  [err |-> "", diam |-> o.d, tip1 |-> mx.tip, tip2 |-> o.tip, anode |-> o.np])))

RECURSIVE xxFrom(_, _, _, _, _, _)
\* the loop of xx(tip, d, a), at node n with p the way up so far: None, or
\* the node below the point and the point's distance from it
xxFrom(t, tip, d, a, n, p) ==
  IF n # a /\ t.chain[n].prev = NoId /\ p + t.chain[n].branchlength[1] < d THEN [err |-> "KeyError", hit |-> None]
  ELSE IF n # a /\ p + t.chain[n].branchlength[1] < d
  THEN xxFrom(t, tip, d, a, t.chain[n].prev, p + t.chain[n].branchlength[1])
  ELSE [err |-> "", hit |-> IF n = a THEN None ELSE Some([tip |-> tip, n |-> n, e |-> d - p])]
\* xx(tip, d, a); a tip that is None has no data
xx(t, tip, d, a) ==
  IF tip = NoId THEN [err |-> "AttributeError", hit |-> None] ELSE xxFrom(t, tip, d, a, tip, 0)

RECURSIVE unrootedNewickRep(_, _, _)
\* _unrootedNewickRep(tree, n, c): [txt, b]
unrootedNewickRep(t, n, c) ==
  IF n = t.root /\ Len(t.chain[n].succ) = 2
  THEN With(IF t.chain[n].succ[1] # c THEN t.chain[n].succ[1] ELSE t.chain[n].succ[2], LAMBDA nc :
         [txt |-> toNewick(t, nc, FALSE, FALSE, FALSE, FALSE).txt,
          b |-> t.chain[nc].branchlength[1] + t.chain[c].branchlength[1]])
  ELSE With(SelectSeq(t.chain[n].succ, LAMBDA nc : nc # c), LAMBDA others :
         With([k \in 1..Len(others) |->
                 toNewick(t, others[k], FALSE, FALSE, FALSE, FALSE).txt
                   \o <<":">> \o FormatG(t.chain[others[k]].branchlength[1])], LAMBDA p :
           With(IF t.chain[n].prev = NoId THEN p
                ELSE With(unrootedNewickRep(t, t.chain[n].prev, n), LAMBDA up :
                       Append(p, up.txt \o <<":">> \o FormatG(up.b))), LAMBDA all :
             [txt |-> <<"(">> \o Join(all, <<",">>) \o <<")">>, b |-> t.chain[c].branchlength[1]])))

\* _rerootedNewickRep(tree, n, d)
rerootedNewickRep(t, n, d) ==
  IF t.chain[n].prev = NoId \/ d > t.chain[n].branchlength[1] THEN TextFail("AssertionError")
  ELSE With(unrootedNewickRep(t, t.chain[n].prev, n), LAMBDA up :
         With(toNewick(t, n, FALSE, FALSE, FALSE, FALSE).txt, LAMBDA down :
           TextOk(<<"(">> \o up.txt \o <<":">> \o FormatG(up.b - d) \o <<",">>
                    \o down \o <<":">> \o FormatG(d) \o <<")">>)))

\* diam/2; the lengths of the model's texts are whole numbers, so that the
\* half of a diameter is a whole number of halves
HalfOf(h) == h \div 2

\* xx(tip1, diam/2, anode) or xx(tip2, diam/2, anode), and the unpacking of it
midpointOf(t, info) ==
  With(xx(t, info.tip1, HalfOf(info.diam), info.anode), LAMBDA first :
    IF first.err # "" \/ first.hit # None THEN first
    ELSE With(xx(t, info.tip2, HalfOf(info.diam), info.anode), LAMBDA second :
           IF second.err = "" /\ second.hit = None THEN [err |-> "TypeError", hit |-> None]
           ELSE second))

\* rootAtMidpoint(tree): [err, txt], with what treeDiameterInfo returned
rootAtMidpoint(t, byId) ==
  With(treeDiameterInfo(t, byId), LAMBDA info :
    IF info.err # "" THEN [err |-> info.err, txt |-> <<>>, info |-> info]
    ELSE With(midpointOf(t, info), LAMBDA mid :
           IF mid.err # "" THEN [err |-> mid.err, txt |-> <<>>, info |-> info]
           ELSE With(rerootedNewickRep(t, mid.hit[1].n, mid.hit[1].e), LAMBDA rep :
                  [err |-> rep.err, txt |-> rep.txt, info |-> info])))

(***************************************************************************)
(* treeutils.rootByTipVarianceOptimization.  The numbers are exact: a      *)
(* fraction <<p, q>> with q > 0 in lowest terms, in halves like the        *)
(* branch lengths (the variance in squares of halves); the floats of the   *)
(* code round them.  The sums of a node, n.data.sums, are kept in a        *)
(* function from node ids: a list of [count, sum, sum of squares], one for *)
(* each child and a last one for the side of the parent.                   *)
(***************************************************************************)
RECURSIVE Gcd(_, _)
Gcd(a, b) == IF b = 0 THEN a ELSE Gcd(b, a % b)
Abs(a) == IF a < 0 THEN -a ELSE a
\* p / q, q # 0
Frac(p, q) ==
  LET g == Gcd(Abs(p), Abs(q))
  IN IF q < 0 THEN <<(-p) \div g, (-q) \div g>> ELSE <<p \div g, q \div g>>
Whole(n) == <<n, 1>>
FrAdd(a, b) == Frac(a[1] * b[2] + b[1] * a[2], a[2] * b[2])
FrSub(a, b) == Frac(a[1] * b[2] - b[1] * a[2], a[2] * b[2])
FrMul(a, b) == Frac(a[1] * b[1], a[2] * b[2])
FrDiv(a, b) == Frac(a[1] * b[2], a[2] * b[1])
FrLess(a, b) == a[1] * b[2] < b[1] * a[2]
FrMax(a, b) == IF FrLess(a, b) THEN b ELSE a
FrMin(a, b) == IF FrLess(b, a) THEN b ELSE a

\* _updateSums(s, x)
updateSums(s, x) ==
  IF s = <<>> THEN <<>> ELSE <<s[1], s[2] + x * s[1], s[3] + 2 * s[2] * x + s[1] * x * x>>
\* _addSums(sms): zip stops at the shortest list
addSums(sms) ==
  IF sms = <<>> \/ \E k \in 1..Len(sms) : sms[k] = <<>> THEN <<>>
  ELSE [i \in 1..3 |-> SumSeq([k \in 1..Len(sms) |-> sms[k][i]])]
NoTips == <<0, 0, 0>>

RECURSIVE formSums(_, _, _)
\* the loop of _populateTreeWithNodeToTipDistancesForm over the nodes in post
\* order: [err, sums]
formSums(t, nodes, sums) ==
  IF nodes = <<>> THEN [err |-> "", sums |-> sums]
  ELSE
    LET n == nodes[1]
        ch == t.chain[n].succ
    IN IF ch = <<>>
       THEN formSums(t, Tail(nodes), (n :> <<<<1, 0, 0>>, NoTips, NoTips>>) @@ sums)
       ELSE IF \E k \in 1..Len(ch) : t.chain[ch[k]].branchlength = None
       THEN [err |-> "TypeError", sums |-> sums]
       ELSE With([k \in 1..Len(ch) |->
                    addSums([i \in 1..(Len(sums[ch[k]]) - 1) |->
                               updateSums(sums[ch[k]][i], t.chain[ch[k]].branchlength[1])])]
                  \o (IF n # t.root THEN <<NoTips>> ELSE <<>>), LAMBDA mine :
              formSums(t, Tail(nodes), (n :> mine) @@ sums))

RECURSIVE populateTipDistancesFromParentForm(_, _, _, _), populateChildren(_, _, _, _, _)
\* _populateTipDistancesFromParentForm(tree, n, parDists): the sums with the
\* side of the parent filled in, for n and the nodes below it
populateTipDistancesFromParentForm(t, sums, n, parDists) ==
  IF n # t.root
  THEN With(updateSums(parDists, t.chain[n].branchlength[1]), LAMBDA up :
         populateChildren(t, [sums EXCEPT ![n][Len(sums[n])] = up], n, up, 1))
  ELSE populateChildren(t, sums, n, NoTips, 1)
\* the loop over the children of n, from the i-th on
populateChildren(t, sums, n, parDists, i) ==
  IF i > Len(t.chain[n].succ) THEN sums
  ELSE With(addSums([j \in 1..(Len(t.chain[n].succ) - 1) |-> sums[n][IF j < i THEN j ELSE j + 1]]
                    \o <<parDists>>), LAMBDA d :
         populateChildren(t, populateTipDistancesFromParentForm(t, sums, t.chain[n].succ[i], d),
                          n, parDists, i + 1))

\* _populateTreeWithNodeToTipDistancesForm(tree): [err, sums]
populateTreeWithNodeToTipDistancesForm(t) ==
  With(formSums(t, getPostOrder(t, t.root), <<>>), LAMBDA f :
    IF f.err # "" THEN f
    ELSE [err |-> "", sums |-> populateTipDistancesFromParentForm(t, f.sums, t.root, <<>>)])

\* the body of the loop of _rootPointByTipVarianceOptimization for node n:
\* [err, val, dx]
edgeOptimum(t, sums, n) ==
  LET own == [k \in 1..(Len(sums[n]) - 1) |-> sums[n][k]]
      par == sums[n][Len(sums[n])]
      npl == SumSeq([k \in 1..Len(own) |-> own[k][1]])
      nmn == par[1]
      nl == npl + nmn
      spl == SumSeq([k \in 1..Len(own) |-> own[k][2]])
      smn == par[2]
      b == Frac(2 * (spl - smn), nl)
      c == Frac(SumSeq([k \in 1..Len(sums[n]) |-> sums[n][k][3]]), nl)
      a1 == Frac(npl - nmn, nl)
      b1 == Frac(spl + smn, nl)
      ac == FrSub(Whole(1), FrMul(a1, a1))
      bc == FrSub(b, FrMul(Whole(2), FrMul(a1, b1)))
      cc == FrSub(c, FrMul(b1, b1))
  IN IF nl = 0 \/ ac[1] = 0 THEN [err |-> "ZeroDivisionError", val |-> Whole(0), dx |-> Whole(0)]
     ELSE With(FrMin(FrMax(FrDiv(FrSub(Whole(0), bc), FrMul(Whole(2), ac)), Whole(0)),
                     Whole(t.chain[n].branchlength[1])), LAMBDA dx :
            [err |-> "", dx |-> dx,
             val |-> FrAdd(FrAdd(FrMul(FrMul(dx, dx), ac), FrMul(dx, bc)), cc)])

RECURSIVE rootPointLoopKeepFirst(_, _, _, _, _)
\* the loop, were the first edge kept whatever the values of the others
rootPointLoopKeepFirst(t, sums, ids, minLoc, late) ==
  IF ids = <<>> THEN [err |-> "", minLoc |-> minLoc]
  ELSE IF ids[1] = t.root THEN rootPointLoopKeepFirst(t, sums, Tail(ids), minLoc, late)
  ELSE With(edgeOptimum(t, sums, ids[1]), LAMBDA e :
         IF e.err # "" THEN [err |-> e.err, minLoc |-> minLoc]
         ELSE rootPointLoopKeepFirst(t, sums, Tail(ids),
                IF minLoc.val = None
                THEN [val |-> Some(e.val), n |-> ids[1], dx |-> e.dx] ELSE minLoc, late))

RECURSIVE rootPointLoop(_, _, _, _, _)
\* the loop over tree.all_ids(); minLoc is [val, n, dx], val None for inf.
\* Of two edges with the same exact value the rounding of the floats decides
\* which one 'val < minLoc[0]' keeps: the later one when late
rootPointLoop(t, sums, ids, minLoc, late) ==
  IF ids = <<>> THEN [err |-> "", minLoc |-> minLoc]
  ELSE IF ids[1] = t.root THEN rootPointLoop(t, sums, Tail(ids), minLoc, late)
  ELSE With(edgeOptimum(t, sums, ids[1]), LAMBDA e :
         IF e.err # "" THEN [err |-> e.err, minLoc |-> minLoc]
         ELSE rootPointLoop(t, sums, Tail(ids),
                IF minLoc.val = None \/ FrLess(e.val, minLoc.val[1]) \/ (late /\ e.val = minLoc.val[1])
                THEN [val |-> Some(e.val), n |-> ids[1], dx |-> e.dx] ELSE minLoc, late))
NoLoc == [val |-> None, n |-> NoId, dx |-> Whole(0)]

\* _rootPointByTipVarianceOptimization(tree): [err, minLoc]
rootPointByTipVarianceOptimization(t, late) ==
  With(populateTreeWithNodeToTipDistancesForm(t), LAMBDA p :
    IF p.err # "" THEN [err |-> p.err, minLoc |-> NoLoc]
    ELSE rootPointLoop(t, p.sums, all_ids(t), NoLoc, late))

\* rootByTipVarianceOptimization(tree): [err, minLoc, rep]; rep is the text
\* of _rerootedNewickRep in its parts, '(lft:b,rht:d)', the two lengths not
\* yet formatted
rootByTipVarianceOptimization(t, late) ==
  With(rootPointByTipVarianceOptimization(t, late), LAMBDA r :
    IF r.err # "" THEN [err |-> r.err, minLoc |-> r.minLoc, rep |-> <<>>]
    ELSE IF r.minLoc.n = NoId THEN [err |-> "AttributeError", minLoc |-> r.minLoc, rep |-> <<>>]
    ELSE With(unrootedNewickRep(t, t.chain[r.minLoc.n].prev, r.minLoc.n), LAMBDA up :
           [err |-> "", minLoc |-> r.minLoc,
            rep |-> <<up.txt, FrSub(Whole(up.b), r.minLoc.dx),
                      toNewick(t, r.minLoc.n, FALSE, FALSE, FALSE, FALSE).txt, r.minLoc.dx>>]))

(***************************************************************************)
(* The inputs: the Newick texts of the trees on the first 1 .. MaxTaxa     *)
(* taxa, the children of a node in the order of their least taxon.  A      *)
(* text is written under a length scheme k: under NoScheme no node has a   *)
(* branch length, under k in 0 .. MaxBranch the subtree on the taxa S has  *)
(* the branch length (k + the sum of the positions of S's taxa) mod        *)
(* (MaxBranch + 1), so that lengths differ from node to node and 0.0      *)
(* occurs.  The tree is optionally wrapped in one more pair of             *)
(* parentheses, which gives it a root with a single child.                 *)
(***************************************************************************)
MaxTaxa == 3
MaxBranch == 2
MaxOps == 2

TaxonNames == <<"A", "B", "C", "D", "x">>
Taxa == {TaxonNames[i] : i \in 1..MaxTaxa}
\* a taxon as a node holds it
Tx(c) == Some(<<c>>)
Pos(c) == CHOOSE i \in 1..Len(TaxonNames) : TaxonNames[i] = c
Least(S) == CHOOSE c \in S : \A d \in S : Pos(c) <= Pos(d)
RECURSIVE SumPos(_)
SumPos(S) == IF S = {} THEN 0 ELSE LET c == Least(S) IN Pos(c) + SumPos(S \ {c})

\* the scheme after the last numbered one writes no lengths
NoScheme == MaxBranch + 1
Schemes == 0..NoScheme
LengthText(S, k) ==
  IF k = NoScheme THEN <<>> ELSE <<":">> \o DigitsOf((k + SumPos(S)) % (MaxBranch + 1))

RECURSIVE SubTexts(_, _), ForestTexts(_, _, _)
\* the texts of the subtrees whose leaves are exactly the taxa S
SubTexts(S, k) ==
  IF Cardinality(S) = 1 THEN {<<Least(S)>> \o LengthText(S, k)}
  ELSE {<<"(">> \o Join(f, <<",">>) \o <<")">> \o LengthText(S, k) : f \in ForestTexts(S, k, 2)}
\* the sequences of at least atLeast subtree texts whose leaf sets partition S
ForestTexts(S, k, atLeast) ==
  UNION {UNION {{<<x>> \o rest : rest \in (IF S \ B = {} THEN {<<>>} ELSE ForestTexts(S \ B, k, 1))} :
                x \in SubTexts(B, k)} :
         B \in {B \in SUBSET S : Least(S) \in B /\ (atLeast >= 2 => B # S)}}

GroupTexts(S, k) ==
  {<<"(">> \o Join(f, <<",">>) \o <<")">> : f \in ForestTexts(S, k, IF Cardinality(S) = 1 THEN 1 ELSE 2)}
TreeTexts ==
  LET plain == UNION {GroupTexts({TaxonNames[i] : i \in 1..n}, k) : n \in 1..MaxTaxa, k \in Schemes}
  IN {x \o <<";">> : x \in plain} \cup {<<"(">> \o x \o <<")">> \o <<";">> : x \in plain}

(***************************************************************************)
(* The tree under mutation: a tree read from a text, then pruned and       *)
(* re-rooted.                                                              *)
(***************************************************************************)
VARIABLES
  txt,     \* the Newick text the tree was read from
  tree,    \* the Tree: [chain, id, root, unrooted]
  last,    \* the last call: [op, arg, ret, err, before]
  ok,      \* every call so far returned (none raised)
  steps    \* the number of calls made

vars == <<txt, tree, last, ok, steps>>

NoCall == [op |-> "none", arg |-> {}, ret |-> NoId, err |-> "", before |-> EmptyTree]
Call(op, arg, r, before) == [op |-> op, arg |-> arg, ret |-> r.ret, err |-> r.err, before |-> before]

Init ==
  /\ txt \in TreeTexts
  /\ tree = parseNewickPython(txt).t
  /\ last = NoCall
  /\ ok = TRUE
  /\ steps = 0

\* t.prune(taxon), as one of at most limit calls
Prune(taxon, limit) ==
  /\ steps < limit
  /\ \E r \in {prune(tree, Tx(taxon))} :
        /\ tree' = r.t
        /\ last' = Call("prune", {Tx(taxon)}, r, tree)
        /\ ok' = (ok /\ r.err = "")
  /\ steps' = steps + 1
  /\ UNCHANGED txt

\* t.root_with_outgroup(outgroup), as one of at most limit calls
RootWithOutgroup(outgroup, limit) ==
  /\ steps < limit
  /\ \E r \in {root_with_outgroup(tree, {Tx(c) : c \in outgroup})} :
        /\ tree' = r.t
        /\ last' = Call("root_with_outgroup", {Tx(c) : c \in outgroup}, r, tree)
        /\ ok' = (ok /\ r.err = "")
  /\ steps' = steps + 1
  /\ UNCHANGED txt

\* any sequence of at most MaxOps calls
Next ==
  \/ \E taxon \in Taxa : Prune(taxon, MaxOps)
  \/ \E outgroup \in SUBSET Taxa : RootWithOutgroup(outgroup, MaxOps)

Spec == Init /\ [][Next]_vars

\* one call on a tree as read
NextCall ==
  \/ \E taxon \in Taxa \cup {"x"} : Prune(taxon, 1)
  \/ \E outgroup \in SUBSET Taxa : RootWithOutgroup(outgroup, 1)

SpecCall == Init /\ [][NextCall]_vars

(***************************************************************************)
(* A tree written by toNewick and read back                                *)
(***************************************************************************)
ExampleText == <<"(", "A", ":", "1", ",", "(", "B", ":", "1", ",", "C", ":", "1", ")", ":", "2", ")", ";">>
\* texts with attributes, and with a name that holds a space
OtherTexts ==
  { <<"(", "A", "[", "&", "x", "=", "1", "]", ",", "B", ")", ";">>,
    <<"(", "(", "A", ",", "B", ")", "[", "&", "x", "=", "{", "1", ",", "2", "}", ",", "D", "=", "0", "]", ",", "C", ")", ";">>,
    <<"(", "A", "[", "&", "x", "=", "]", ",", "B", ")", ";">>,
    <<"(", "A", " ", "B", " ", "C", ",", "D", ")", ";">>,
    <<"(", "A", ",", "B", ")", "[", "&", "x", "=", "{", "1", "]", "0", "}", "]", ";">> }
NewickTexts == TreeTexts \cup {ExampleText} \cup OtherTexts

InitNewick ==
  /\ txt \in NewickTexts
  /\ tree = parseNewickPython(txt).t
  /\ last = NoCall
  /\ ok = TRUE
  /\ steps = 0

\* text = t.toNewick(topologyOnly = ..., attributes = ...)
ToNewick(topologyOnly, attributes, backwards) ==
  /\ last.op = "none"
  /\ \E r \in {toNewick(tree, tree.root, topologyOnly, attributes, FALSE, backwards)} :
        /\ last' = [op |-> "toNewick", arg |-> <<topologyOnly, attributes>>, ret |-> r.txt,
                    err |-> r.err, before |-> tree]
        /\ ok' = (r.err = "")
  /\ steps' = steps + 1
  /\ UNCHANGED <<txt, tree>>

\* t = _parseNewickPython(text)
Parse ==
  /\ last.op = "toNewick" /\ last.err = ""
  /\ \E p \in {parseNewickPython(last.ret)} :
        /\ tree' = p.t
        /\ last' = [last EXCEPT !.op = "parse", !.err = p.err]
        /\ ok' = (p.err = "")
  /\ steps' = steps + 1
  /\ UNCHANGED txt

NextNewick ==
  \/ \E topologyOnly \in BOOLEAN, attributes \in BOOLEAN, backwards \in BOOLEAN :
       ToNewick(topologyOnly, attributes, backwards)
  \/ Parse

SpecNewick == InitNewick /\ [][NextNewick]_vars

(***************************************************************************)
(* The parser on texts typed character by character after a start          *)
(***************************************************************************)
MaxTyped == 4
TypedChars == {"(", ")", ",", "A", ":", "1", " ", "]"}
StartTexts ==
  { <<>>,
    <<"(", "A", ",", "(", "B">>,
    <<"(", "(", "A", ",", "B", ")", ",", "(", "A">>,
    <<"(", "A", "[", "&", "x", "=", "1">>,
    <<"(", "(", "A", ":", "1", ",", "B", ":", "0", ".", "5", ")", "x", "[", "c">> }

InitParse ==
  /\ txt \in StartTexts
  /\ tree = EmptyTree
  /\ last = NoCall
  /\ ok = TRUE
  /\ steps = 0

\* one more character of the text
Type(c) ==
  /\ last.op = "none"
  /\ steps < MaxTyped
  /\ txt' = Append(txt, c)
  /\ steps' = steps + 1
  /\ UNCHANGED <<tree, last, ok>>

\* _parseNewickPython(txt); last.ret is what the reader made of the text, its
\* error or the record list, and last.err the error of the whole call
Read ==
  /\ last.op = "none"
  /\ \E p \in {parseNewickPython(txt)} :
        /\ tree' = p.t
        /\ last' = [op |-> "read", arg |-> txt, ret |-> readText(txt), err |-> p.err, before |-> tree]
        /\ ok' = (p.err = "")
  /\ UNCHANGED <<txt, steps>>

NextParse ==
  \/ \E c \in TypedChars : Type(c)
  \/ Read

SpecParse == InitParse /\ [][NextParse]_vars

(***************************************************************************)
(* A consensus of a list of trees: tree is the list, txt the list of the   *)
(* texts the trees were read from.                                         *)
(***************************************************************************)
MaxTrees == 6
\* (A:1,(B:1,C:1):2); ((A:1,B:1):2,C:1); and (A:1,(B:1,D:1):2); whose taxa differ
ConsensusTexts ==
  { ExampleText,
    <<"(", "(", "A", ":", "1", ",", "B", ":", "1", ")", ":", "2", ",", "C", ":", "1", ")", ";">>,
    <<"(", "A", ":", "1", ",", "(", "B", ":", "1", ",", "D", ":", "1", ")", ":", "2", ")", ";">> }
\* the thresholds 0.5 and 1.0, in halves
Thresholds == {1, 2}
Outgroups == {None, Some({Tx("A")})}

InitConsensus ==
  /\ txt = <<>>
  /\ tree = <<>>
  /\ last = NoCall
  /\ ok = TRUE
  /\ steps = 0

\* one more tree is read
AddTree(text) ==
  /\ last.op = "none"
  /\ Len(tree) < MaxTrees
  /\ txt' = Append(txt, text)
  /\ tree' = Append(tree, parseNewickPython(text).t)
  /\ steps' = steps + 1
  /\ UNCHANGED <<last, ok>>

\* consensus(trees, threshold, outgroup)
Consensus(threshold, outgroup, backwards) ==
  /\ last.op = "none"
  /\ tree # <<>>
  /\ \E r \in {consensus(tree, FxHalves(threshold), outgroup, backwards)} :
        /\ tree' = r.trees
        /\ last' = [op |-> "consensus", arg |-> [threshold |-> threshold, outgroup |-> outgroup],
                    ret |-> r.ret, err |-> r.err, before |-> tree, clades |-> r.clades]
        /\ ok' = (r.err = "")
  /\ UNCHANGED <<txt, steps>>

NextConsensus ==
  \/ \E text \in ConsensusTexts : AddTree(text)
  \/ \E threshold \in Thresholds, outgroup \in Outgroups, backwards \in BOOLEAN :
       Consensus(threshold, outgroup, backwards)

SpecConsensus == InitConsensus /\ [][NextConsensus]_vars

(***************************************************************************)
(* Common ancestors by a CAhelper built on a tree as read                  *)
(***************************************************************************)
MaxQuery == 3

\* CAhelper(tree)
BuildHelper ==
  /\ last.op = "none"
  /\ \E r \in {CAhelper(tree, None)} :
        /\ tree' = r.t
        /\ last' = Call("CAhelper", {}, r, tree)
        /\ ok' = (r.err = "")
  /\ steps' = steps + 1
  /\ UNCHANGED txt

\* helper.getCA(txNodes) on terminals of the tree
GetCA(txNodes) ==
  /\ last.op # "none"
  /\ ok
  /\ \E r \in {getCA(tree, txNodes)} : last' = Call("getCA", txNodes, r, tree)
  /\ UNCHANGED <<txt, tree, ok, steps>>

NextCA ==
  \/ BuildHelper
  \/ \E n \in 1..MaxQuery : \E txNodes \in [1..n -> Range(get_terminals(tree))] : GetCA(txNodes)

SpecCA == Init /\ [][NextCA]_vars

(***************************************************************************)
(* A tree re-rooted at its midpoint, and the text read back                *)
(***************************************************************************)
\* the texts of the trees, and those of the trees with branch lengths under
\* a root of one child
MidpointTexts ==
  TreeTexts \cup
  UNION {{<<"(">> \o x \o <<")", ";">> : x \in SubTexts({TaxonNames[i] : i \in 1..n}, k)} :
         n \in 1..MaxTaxa, k \in 0..MaxBranch}

InitMidpoint ==
  /\ txt \in MidpointTexts
  /\ tree = parseNewickPython(txt).t
  /\ last = NoCall
  /\ ok = TRUE
  /\ steps = 0

\* rootAtMidpoint(tree)
RootAtMidpoint(byId) ==
  /\ last.op = "none"
  /\ \E r \in {rootAtMidpoint(tree, byId)} :
        /\ last' = [op |-> "rootAtMidpoint", arg |-> byId, ret |-> r.txt, err |-> r.err,
                    before |-> tree, info |-> r.info]
        /\ ok' = (r.err = "")
  /\ steps' = steps + 1
  /\ UNCHANGED <<txt, tree>>

\* the text that rootAtMidpoint returned is read
ReadRooted ==
  /\ last.op = "rootAtMidpoint"
  /\ last.err = ""
  /\ \E r \in {parseNewickPython(last.ret)} :
        /\ tree' = r.t
        /\ last' = [last EXCEPT !.op = "read", !.err = r.err]
        /\ ok' = (r.err = "")
  /\ steps' = steps + 1
  /\ UNCHANGED txt

NextMidpoint ==
  \/ \E byId \in BOOLEAN : RootAtMidpoint(byId)
  \/ ReadRooted

SpecMidpoint == InitMidpoint /\ [][NextMidpoint]_vars

(***************************************************************************)
(* The two readers, Tree(text) and _parseNewickPython(text), on texts      *)
(* typed character by character after a start                              *)
(***************************************************************************)
MaxRead == 3
ReaderChars == {"(", ")", ",", "A", ":", "0", "1", "[", "]", ";", " "}
ReaderStarts ==
  { <<>>,
    <<"(", "A", ",", "B", ")", ";">>,
    <<"(", "A", ",", "B", ")", "[">>,
    <<"(", "A", "[">>,
    <<"(", "A", ",", "B", "[", "\\", "]", ",", "C", "]">>,
    <<"(", "A", "[", "&", "x", "=", "1", "]", ":", "2", ",", "B">>,
    <<"(", "A", ":", "2", "[", "&", "x", "=", "1", "]", ",", "B">>,
    <<"(", "A", ",", "B", ")", "[", "&", "x", "=", "1", "]", ":", "2">>,
    <<"(", "A", ",", "B", ")", ":", "2", "[", "&", "x", "=", "1", "]">> }

InitReaders ==
  /\ txt \in ReaderStarts
  /\ tree = EmptyTree
  /\ last = NoCall
  /\ ok = TRUE
  /\ steps = 0

\* one more character of the text
Key(c) ==
  /\ last.op = "none"
  /\ steps < MaxRead
  /\ txt' = Append(txt, c)
  /\ steps' = steps + 1
  /\ UNCHANGED <<tree, last, ok>>

\* Tree(tree = txt)
Construct ==
  /\ last.op = "none"
  /\ \E p \in {Tree(txt)} :
        /\ tree' = p.t
        /\ last' = [op |-> "Tree", arg |-> txt, ret |-> NoId, err |-> p.err, before |-> tree]
        /\ ok' = (p.err = "")
  /\ UNCHANGED <<txt, steps>>

NextReaders ==
  \/ \E c \in ReaderChars : Key(c)
  \/ Read
  \/ Construct

SpecReaders == InitReaders /\ [][NextReaders]_vars

(***************************************************************************)
(* unroot() on a tree as read by either reader.  The texts give the two    *)
(* children of a forked root every pair of supports and lengths, and the   *)
(* root one child or three.                                                *)
(***************************************************************************)
Supports == {<<>>, <<"0">>, <<"1">>, <<"2">>}
Lengths == {<<>>, <<":", "1">>, <<":", "2">>}
ForkText(s1, l1, s2, l2) ==
  <<"(", "(", "A", ",", "B", ")">> \o s1 \o l1 \o <<",", "(", "C", ",", "D", ")">> \o s2 \o l2 \o <<")">>
UnrootTexts ==
  {ForkText(s1, l1, s2, l2) : s1 \in Supports, l1 \in Lengths, s2 \in Supports, l2 \in Lengths}
  \cup { <<"(", "A", ":", "1", ",", "B", ":", "2", ")">>,
         <<"(", "A", ":", "1", ",", "B", ":", "2", ",", "C", ":", "1", ")">>,
         <<"(", "(", "A", ":", "1", ",", "B", ":", "2", ")", ":", "1", ")">>,
         <<"(", "(", "A", ":", "1", ",", "B", ":", "2", ")", "1", ":", "1", ",", "C", ":", "2", ",", "(", "D", ",", "E", ")", "0", ":", "1", ")">> }

InitUnroot ==
  /\ txt \in UnrootTexts
  /\ tree = EmptyTree
  /\ last = NoCall
  /\ ok = TRUE
  /\ steps = 0

\* t.unroot() on the tree read
Unroot ==
  /\ last.op \in {"Tree", "read"}
  /\ last.err = ""
  /\ \E r \in {unroot(tree)} :
        /\ tree' = r.t
        /\ last' = Call("unroot", {}, r, tree)
        /\ ok' = (r.err = "")
  /\ steps' = steps + 1
  /\ UNCHANGED txt

NextUnroot ==
  \/ Construct
  \/ Read
  \/ Unroot

SpecUnroot == InitUnroot /\ [][NextUnroot]_vars

(***************************************************************************)
(* is_monophyletic(taxon_list) on a tree as read, or pruned once           *)
(***************************************************************************)
QueryTaxa == Taxa \cup {"x"}

\* t.is_monophyletic(S)
IsMonophyletic(S) ==
  /\ last.op # "is_monophyletic"
  /\ last' = [op |-> "is_monophyletic", arg |-> {Tx(c) : c \in S},
              ret |-> is_monophyletic(tree, {Tx(c) : c \in S}), err |-> "", before |-> tree]
  /\ UNCHANGED <<txt, tree, ok, steps>>

NextMonophyletic ==
  \/ \E taxon \in Taxa : Prune(taxon, 1)
  \/ \E S \in SUBSET QueryTaxa : IsMonophyletic(S)

SpecMonophyletic == Init /\ [][NextMonophyletic]_vars

(***************************************************************************)
(* rootByTipVarianceOptimization on a tree as read, or pruned once         *)
(***************************************************************************)
VarianceTexts ==
  TreeTexts \cup { <<"(", "(", "A", ":", "1", ",", "B", ":", "2", ")", ":", "1", ",", "(", "C", ":", "2", ",", "D", ":", "1", ")", ":", "2", ")", ";">>,
                   <<"(", "A", ":", "1", ",", "B", ":", "3", ",", "C", ":", "2", ",", "D", ":", "5", ")", ";">>,
                   <<"(", "(", "(", "A", ":", "1", ",", "B", ":", "2", ")", ":", "3", ",", "C", ":", "1", ")", ":", "2", ",", "D", ":", "7", ")", ";">>,
                   <<"(", "(", "A", ":", "1", ",", "B", ":", "2", ")", ":", "1", ")", ";">>,
                   <<"(", "A", ":", "1", ",", "(", "B", ":", "1", ",", "C", ":", "4", ")", ":", "0", ")", ";">> }

InitVariance ==
  /\ txt \in VarianceTexts
  /\ tree = parseNewickPython(txt).t
  /\ last = NoCall
  /\ ok = TRUE
  /\ steps = 0

\* rootByTipVarianceOptimization(tree); last.ret is [minLoc, rep]
RootByTipVariance(late) ==
  /\ last.op # "rootByTipVarianceOptimization"
  /\ \E r \in {rootByTipVarianceOptimization(tree, late)} :
        /\ last' = [op |-> "rootByTipVarianceOptimization", arg |-> {},
                    ret |-> [minLoc |-> r.minLoc, rep |-> r.rep], err |-> r.err, before |-> tree]
        /\ ok' = (ok /\ r.err = "")
  /\ UNCHANGED <<txt, tree, steps>>

NextVariance ==
  \/ \E taxon \in Taxa : Prune(taxon, 1)
  \/ \E late \in BOOLEAN : RootByTipVariance(late)

SpecVariance == InitVariance /\ [][NextVariance]_vars

(***************************************************************************)
(* A CAhelper built on a tree as read, with a height threshold or without  *)
(* one; heights are in halves                                              *)
(***************************************************************************)
MaxTh == 8
ThresholdTexts ==
  VarianceTexts \cup { <<"(", "A", ":", "2", ",", "B", ":", "2", ")", ";">>,
                      <<"(", "(", "A", ":", "1", ",", "B", ":", "1", ")", ":", "1", ",", "C", ":", "2", ")", ";">>,
                      <<"(", "(", "A", ":", "1", ",", "B", ":", "1", ")", ":", "2", ",", "(", "C", ":", "2", ",", "D", ":", "2", ")", ":", "1", ")", ";">>,
                      <<"(", "A", ":", "1", ",", "B", ":", "1", ",", "C", ":", "1", ")", ";">>,
                      <<"(", "(", "A", ":", "1", ",", "B", ":", "1", ")", ":", "0", ",", "C", ":", "1", ")", ";">>,
                      <<"(", "(", "(", "A", ":", "1", ",", "B", ":", "1", ")", ":", "1", ",", "C", ":", "2", ")", ":", "1", ",", "D", ":", "3", ")", ";">> }
InitThreshold ==
  /\ txt \in ThresholdTexts
  /\ tree = parseNewickPython(txt).t
  /\ last = NoCall
  /\ ok = TRUE
  /\ steps = 0

\* CAhelper(tree, th)
BuildHelperAt(th) ==
  /\ last.op = "none"
  /\ \E r \in {CAhelper(tree, Some(th))} :
        /\ tree' = r.t
        /\ last' = Call("CAhelper", {th}, r, tree)
        /\ ok' = (r.err = "")
  /\ steps' = steps + 1
  /\ UNCHANGED txt

NextThreshold ==
  \/ \E th \in (-1)..MaxTh : BuildHelperAt(th)
  \/ BuildHelper

SpecThreshold == InitThreshold /\ [][NextThreshold]_vars

(***************************************************************************)
(* is_compatible on two trees built by Tree from texts that give the inner *)
(* nodes a support (0, 1 or 2) and a length; supports and thresholds are   *)
(* in halves.  Some of the trees lack the taxon D.                         *)
(***************************************************************************)
CompatSupports == {"0", "1", "2"}
CompatThresholds == {-2, 0, 2, 4}
CompatTexts ==
  UNION {{ <<"(", "(", "A", ",", "B", ")", s1, ":", "1", ",", "(", "C", ",", "D", ")", s2, ":", "1", ")">>,
           <<"(", "(", "A", ",", "C", ")", s1, ":", "1", ",", "(", "B", ",", "D", ")", s2, ":", "1", ")">>,
           <<"(", "(", "(", "A", ",", "B", ")", s1, ":", "1", ",", "C", ")", s2, ":", "1", ",", "D", ")">>,
           <<"(", "(", "A", ",", "B", ")", s1, ":", "1", ",", "C", ")">>,
           <<"(", "(", "A", ",", "C", ")", s1, ":", "1", ",", "B", ")">>,
           <<"(", "(", "A", ",", "B", ",", "C", ")", s1, ":", "1", ",", "D", ")">> } :
         s1 \in CompatSupports, s2 \in CompatSupports}
  \cup { <<"(", "(", "A", ",", "B", ")", ",", "(", "C", ",", "D", ")", ")">> }

InitCompatible ==
  /\ txt \in CompatTexts
  /\ tree = Tree(txt).t
  /\ last = NoCall
  /\ ok = TRUE
  /\ steps = 0

\* tree.is_compatible(Tree(text2), threshold, strict)
IsCompatible(text2, threshold, strict) ==
  /\ last.op = "none"
  /\ \E tree2 \in {Tree(text2).t} : \E r \in {is_compatible(tree, tree2, threshold, strict)} :
        /\ last' = [op |-> "is_compatible",
                    arg |-> [tree2 |-> tree2, threshold |-> threshold, strict |-> strict],
                    ret |-> r.ret, err |-> r.err, before |-> tree]
        /\ ok' = (r.err = "")
  /\ steps' = steps + 1
  /\ UNCHANGED <<txt, tree>>

NextCompatible ==
  \E text2 \in CompatTexts, threshold \in CompatThresholds, strict \in BOOLEAN :
     IsCompatible(text2, threshold, strict)

SpecCompatible == InitCompatible /\ [][NextCompatible]_vars

(***************************************************************************)
(* toNewick on two trees that differ by the order of the children of some  *)
(* of their nodes: the tree read from a text, and the tree read from that  *)
(* text with the children of the nodes picked written in another order.    *)
(***************************************************************************)
\* the k-th order of a list: turned by k places, and backwards for the
\* upper half of the ks
Reordered(seq, k) ==
  LET n == Len(seq)
      turned == [i \in 1..n |-> seq[((i - 1 + k) % n) + 1]]
  IN IF n = 0 THEN seq ELSE IF (k \div n) % 2 = 1 THEN Reverse(turned) ELSE turned
Orders == 0..5

RECURSIVE reorderedText(_, _, _, _)
\* the text of the subtree of n with its lengths, the children of the nodes
\* in picked in the k-th order
reorderedText(t, n, picked, k) ==
  LET node == t.chain[n]
      kids == IF n \in picked THEN Reordered(node.succ, k) ELSE node.succ
      stem == IF n # t.root /\ node.branchlength # None
              THEN <<":">> \o ReprFloat(node.branchlength[1]) ELSE <<>>
  IN (IF node.succ = <<>> THEN (IF node.taxon # None THEN node.taxon[1] ELSE <<>>)
      ELSE <<"(">> \o Join([i \in 1..Len(kids) |-> reorderedText(t, kids[i], picked, k)], <<",">>) \o <<")">>)
     \o stem

\* tree.toNewick(..) and toNewick(_parseNewickPython(the reordered text), ..)
ToNewickTwice(picked, k, topologyOnly) ==
  /\ last.op = "none"
  /\ \E p \in {parseNewickPython(reorderedText(tree, tree.root, picked, k) \o <<";">>)} :
     \E r1 \in {toNewick(tree, tree.root, topologyOnly, FALSE, FALSE, FALSE)} :
     \E r2 \in {toNewick(p.t, p.t.root, topologyOnly, FALSE, FALSE, FALSE)} :
        /\ last' = [op |-> "toNewick", arg |-> [tree2 |-> p.t, topologyOnly |-> topologyOnly],
                    ret |-> <<r1.txt, r2.txt>>,
                    err |-> IF p.err # "" THEN p.err ELSE IF r1.err # "" THEN r1.err ELSE r2.err,
                    before |-> tree]
        /\ ok' = (p.err = "" /\ r1.err = "" /\ r2.err = "")
  /\ steps' = steps + 1
  /\ UNCHANGED <<txt, tree>>

NextCanonical ==
  \E picked \in SUBSET {n \in DOMAIN tree.chain : tree.chain[n].succ # <<>>} :
    \E k \in Orders, topologyOnly \in BOOLEAN : ToNewickTwice(picked, k, topologyOnly)

SpecCanonical == InitVariance /\ [][NextCanonical]_vars

(***************************************************************************)
(* root_with_outgroup, alone or after another call, on trees of up to four *)
(* taxa with branch lengths                                                *)
(***************************************************************************)
RerootTaxa == Taxa \cup {"D"}
RerootTexts ==
  VarianceTexts \cup { <<"(", "(", "A", ":", "1", ",", "B", ":", "2", ")", ":", "1", ",", "C", ":", "2", ",", "D", ":", "1", ")", ";">>,
                    <<"(", "(", "(", "A", ":", "1", ",", "B", ":", "2", ")", ":", "1", ",", "C", ":", "2", ")", ":", "2", ",", "D", ":", "1", ")", ";">> }
InitReroot ==
  /\ txt \in RerootTexts
  /\ tree = parseNewickPython(txt).t
  /\ last = NoCall
  /\ ok = TRUE
  /\ steps = 0

NextReroot ==
  \/ \E taxon \in RerootTaxa : Prune(taxon, 1)
  \/ \E outgroup \in SUBSET RerootTaxa : RootWithOutgroup(outgroup, MaxOps)

SpecReroot == InitReroot /\ [][NextReroot]_vars

(***************************************************************************)
(* Properties of a tree                                                    *)
(***************************************************************************)
TaxaSet(t) == Range(get_taxa_all(t))
Children(t, n) == Range(t.chain[n].succ)
Occurrences(seq, x) == Cardinality({i \in 1..Len(seq) : seq[i] = x})

RECURSIVE ReachesRoot(_, _, _)
\* following parent links from n arrives at the root within fuel steps
ReachesRoot(t, n, fuel) ==
  IF n = t.root THEN TRUE
  ELSE IF fuel = 0 \/ n \notin DOMAIN t.chain \/ t.chain[n].prev = NoId THEN FALSE
  ELSE ReachesRoot(t, t.chain[n].prev, fuel - 1)

OneParentlessNode(t) == {i \in DOMAIN t.chain : t.chain[i].prev = NoId} = {t.root}
ChildOfItsParentOnly(t) ==
  \A i \in DOMAIN t.chain \ {t.root} :
    /\ t.chain[i].prev \in DOMAIN t.chain
    /\ \A j \in DOMAIN t.chain :
         Occurrences(t.chain[j].succ, i) = (IF j = t.chain[i].prev THEN 1 ELSE 0)
Acyclic(t) == \A i \in DOMAIN t.chain : ReachesRoot(t, i, Cardinality(DOMAIN t.chain))
\* the root of a tree pruned of all its taxa is left aside
LeavesCarryTaxon(t) ==
  \A i \in DOMAIN t.chain \ {t.root} : t.chain[i].succ = <<>> => t.chain[i].taxon # None
WellFormed(t) ==
  /\ OneParentlessNode(t)
  /\ ChildOfItsParentOnly(t)
  /\ Acyclic(t)
  /\ LeavesCarryTaxon(t)

\* the last call was op and it returned
Returned(op) == last.op = op /\ last.err = ""

\* the clades of a tree: the sets of leaf taxa below its nodes
Clades(t) == {Range(get_taxa(t, n)) : n \in DOMAIN t.chain}

(***************************************************************************)
(* C1.  For every tree T and every taxon set O that is monophyletic in T,  *)
(* after root_with_outgroup(O) returns, the node whose descendant taxa are *)
(* exactly O is a direct child of T's root and the set of leaf taxa        *)
(* returned by get_taxa() is the same as before the call.  (An outgroup of *)
(* all the taxa, whose node is the root itself, is left aside.)            *)
(***************************************************************************)
OutgroupIsChildOfRoot(t, O) == \E c \in Children(t, t.root) : Range(get_taxa(t, c)) = O
C1_OutgroupUnderRootTaxaKept ==
  (/\ Returned("root_with_outgroup")
   /\ is_monophyletic(last.before, last.arg) # -1
   /\ last.arg # TaxaSet(last.before))
    => (OutgroupIsChildOfRoot(tree, last.arg) /\ TaxaSet(tree) = TaxaSet(last.before))

(***************************************************************************)
(* C2.  After any sequence of successful prune and root_with_outgroup      *)
(* calls on a tree produced by the parser and TreeBuilder, the tree has    *)
(* exactly one parentless node, the root; every other node is exactly once *)
(* in its parent's children and in no other children list; the parent      *)
(* links are acyclic; every childless node carries a taxon.                *)
(***************************************************************************)
C2_WellFormedAfterCalls == ok => WellFormed(tree)

(***************************************************************************)
(* C3.  consensus(trees, threshold) over trees with the same taxa adds,    *)
(* for every internal node of every tree, 1/len(trees) under the node's    *)
(* set of descendant taxa; the internal (non-root, non-leaf) clades of the *)
(* result are exactly the taxa sets whose accumulated frequency is at      *)
(* least the threshold, each with that frequency as its support.  Three    *)
(* copies of (A,(B,C)) and one ((A,B),C) at threshold 0.5 give the root    *)
(* clade {A,B,C}, the one internal clade {B,C} with support 0.75, and no   *)
(* clade {A,B}.                                                            *)
(***************************************************************************)
SameTaxa(trees) == \A k \in 1..Len(trees) : TaxaSet(trees[k]) = TaxaSet(trees[1])
CladeOf(t, n) == Range(get_taxa(t, n))
Internal(t) == {n \in DOMAIN t.chain : n # t.root /\ t.chain[n].succ # <<>>}
InternalClades(t) == {CladeOf(t, n) : n \in Internal(t)}
\* the number of nodes below the roots of the trees whose clade is S
RECURSIVE Count(_, _)
Count(trees, S) ==
  IF trees = <<>> THEN 0
  ELSE Cardinality({n \in DOMAIN trees[1].chain \ {trees[1].root} : CladeOf(trees[1], n) = S})
       + Count(Tail(trees), S)
\* w + w + ... + w, c times, in floats
RECURSIVE Times(_, _)
Times(w, c) == IF c = 1 THEN w ELSE With(Times(w, c - 1), LAMBDA acc : FloatAdd(acc, w))
\* the frequency the table holds for the clade S
Frequency(clades, S) ==
  IF \E k \in 1..Len(clades) : Range(clades[k].key) = S
  THEN clades[CHOOSE k \in 1..Len(clades) : Range(clades[k].key) = S].p
  ELSE FxHalves(0)
ThreeQuarters == [i \in 1..Width |-> IF i \in {IntBits + 1, IntBits + 2} THEN 1 ELSE 0]
ConsensusOfSameTaxa ==
  last.op = "consensus" /\ SameTaxa(last.before) /\ last.arg.outgroup = None

FrequenciesAccumulated ==
  \A k \in 1..Len(last.before) : \A n \in Internal(last.before[k]) :
     \E w \in {FloatInverse(Len(last.before))} :
        Frequency(last.clades, CladeOf(last.before[k], n))
          = Times(w, Count(last.before, CladeOf(last.before[k], n)))
FrequentCladesKept ==
  /\ last.err = ""
  /\ InternalClades(last.ret[1])
       = {S \in UNION {InternalClades(last.before[k]) : k \in 1..Len(last.before)} :
            ~FxLess(Frequency(last.clades, S), FxHalves(last.arg.threshold))}
  /\ \A n \in Internal(last.ret[1]) :
        last.ret[1].chain[n].support = Some(Frequency(last.clades, CladeOf(last.ret[1], n)))
ThreeToOne ==
  /\ Len(txt) = 4
  /\ \A k \in 1..3 : txt[k] = ExampleText
  /\ InternalClades(last.before[4]) = {{Tx("A"), Tx("B")}}
  /\ last.arg.threshold = 1
ThreeToOneResult ==
  /\ last.err = ""
  /\ CladeOf(last.ret[1], last.ret[1].root) = {Tx("A"), Tx("B"), Tx("C")}
  /\ InternalClades(last.ret[1]) = {{Tx("B"), Tx("C")}}
  /\ \A n \in Internal(last.ret[1]) : last.ret[1].chain[n].support = Some(ThreeQuarters)

C3_FrequentCladesAreTheResult ==
  ConsensusOfSameTaxa =>
    (FrequenciesAccumulated /\ FrequentCladesKept /\ (ThreeToOne => ThreeToOneResult))

(***************************************************************************)
(* C4.  For every tree T, every N >= 1 and every threshold <= 1.0, the     *)
(* consensus of N copies of T is a tree whose set of clades (the sets of   *)
(* leaf taxa below its nodes) is the set of clades of T.                   *)
(***************************************************************************)
ConsensusOfCopies ==
  last.op = "consensus" /\ last.arg.outgroup = None /\ \A k \in 1..Len(txt) : txt[k] = txt[1]

C4_CopiesReproduceClades ==
  ConsensusOfCopies =>
    (last.err = "" /\ last.ret # None /\ Clades(last.ret[1]) = Clades(last.before[1]))

(***************************************************************************)
(* C5.  When the input trees of consensus(trees, threshold, outgroup) do   *)
(* not all have the same set of leaf taxa, the call fails with an error,   *)
(* and no input tree has been modified: the root, the parent and child     *)
(* links, the branch lengths and the supports of every input tree are as   *)
(* before the call, wherever the mismatching tree stands in the list.      *)
(***************************************************************************)
SameLinks(t, u) ==
  /\ t.root = u.root
  /\ DOMAIN t.chain = DOMAIN u.chain
  /\ \A n \in DOMAIN t.chain :
       /\ t.chain[n].prev = u.chain[n].prev
       /\ t.chain[n].succ = u.chain[n].succ
       /\ t.chain[n].branchlength = u.chain[n].branchlength
       /\ t.chain[n].support = u.chain[n].support

C5_MismatchFailsInputsUntouched ==
  (last.op = "consensus" /\ ~SameTaxa(last.before)) =>
    (last.err # "" /\ \A k \in 1..Len(tree) : SameLinks(tree[k], last.before[k]))

(***************************************************************************)
(* C6.  For every tree and every non-empty sequence of leaf nodes of the   *)
(* tree, of any length and with repetitions of the same leaf allowed,      *)
(* CAhelper.getCA returns the node that folding Tree.common_ancestor over  *)
(* the sequence gives.                                                     *)
(***************************************************************************)
RECURSIVE FoldCommonAncestor(_, _, _)
FoldCommonAncestor(t, acc, rest) ==
  IF rest = <<>> THEN acc
  ELSE With(common_ancestor(t, acc, rest[1]), LAMBDA ca : FoldCommonAncestor(t, ca, Tail(rest)))
AsReference == last.err = "" /\ last.ret = FoldCommonAncestor(tree, last.arg[1], Tail(last.arg))

C6_GetCAIsFoldWithRepeats == last.op = "getCA" => AsReference

\* for a sequence that is one leaf, or in which at least two different leaves
\* occur (a leaf may still occur more than once), getCA does return the node
\* that folding Tree.common_ancestor over it gives
GetCAIsFoldOfDistinct ==
  (last.op = "getCA" /\ (Len(last.arg) = 1 \/ Cardinality(Range(last.arg)) >= 2)) => AsReference
\* two leaves, one of them twice, below a node that is not the root
FoldOfDistinctReached ==
  /\ last.op = "getCA"
  /\ Len(last.arg) = 3
  /\ Cardinality(Range(last.arg)) = 2
  /\ last.err = ""
  /\ last.ret # tree.root

(***************************************************************************)
(* C7.  For every tree with at least two leaves and non-negative branch    *)
(* lengths, in the tree that rootAtMidpoint emits the two tips returned by *)
(* treeDiameterInfo are each at distance diameter/2 from the new root, and *)
(* no tip is farther than diameter/2 from the new root.                    *)
(***************************************************************************)
LengthsSet(t) == \A n \in DOMAIN t.chain \ {t.root} : t.chain[n].branchlength # None
Leaves(t) == {n \in DOMAIN t.chain : t.chain[n].succ = <<>>}
RECURSIVE DistanceToRoot(_, _)
DistanceToRoot(t, n) ==
  IF n = t.root \/ t.chain[n].prev = NoId THEN 0
  ELSE t.chain[n].branchlength[1] + DistanceToRoot(t, t.chain[n].prev)
\* the leaves of t that carry the taxon of leaf n of the tree before
Named(t, n) == {x \in Leaves(t) : n # NoId /\ t.chain[x].taxon = last.before.chain[n].taxon}
TwoLeavesWithLengths ==
  Cardinality(Leaves(last.before)) >= 2 /\ LengthsSet(last.before)
TipsAtHalfDiameter ==
  /\ LengthsSet(tree)
  /\ \A tip \in {last.info.tip1, last.info.tip2} :
       /\ Named(tree, tip) # {}
       /\ \A x \in Named(tree, tip) : 2 * DistanceToRoot(tree, x) = last.info.diam
  /\ \A x \in Leaves(tree) : 2 * DistanceToRoot(tree, x) <= last.info.diam

C7_MidpointHalvesDiameter ==
  /\ (last.op = "rootAtMidpoint" /\ TwoLeavesWithLengths) => last.err = ""
  /\ (last.op = "read" /\ "info" \in DOMAIN last /\ TwoLeavesWithLengths)
       => (last.err = "" /\ TipsAtHalfDiameter)

\* under a root of two or more children the midpoint does halve the diameter
MidpointHalvesUnderForkedRoot ==
  Len(last.before.chain[last.before.root].succ) >= 2 => C7_MidpointHalvesDiameter

(***************************************************************************)
(* C8.  For every tree T, parsing the text that toNewick writes for T      *)
(* (with or without branch lengths, with or without attributes) gives a    *)
(* tree whose set of clades, the descendant leaf-taxon sets over all       *)
(* nodes, equals T's.                                                      *)
(***************************************************************************)
C8_RoundTripKeepsClades ==
  /\ last.op = "toNewick" => last.err = ""
  /\ last.op = "parse" => (last.err = "" /\ Clades(tree) = Clades(last.before))

(***************************************************************************)
(* C9.  For the tree parsed from "(A:1,(B:1,C:1):2);" the topology-only    *)
(* output of toNewick is the text "(A,(B,C))".                             *)
(***************************************************************************)
TopologyOfExample == txt = ExampleText /\ last.op = "toNewick" /\ last.arg[1]
C9_TopologyOnlyAsClaimed == TopologyOfExample => last.ret = <<"(", "A", ",", "(", "B", ",", "C", ")", ")">>
\* C9 as amended: the children are sorted by their text and "(" sorts before
\* "A", so the output is "((B,C),A)"
C9_TopologyOnlySortedByText == TopologyOfExample => (last.err = "" /\ last.ret = <<"(", "(", "B", ",", "C", ")", ",", "A", ")">>)
C9_Witness == TopologyOfExample /\ last.err = "" /\ Len(last.ret) = 9

(***************************************************************************)
(* C10.  For every input the parser accepts, in the emitted record list    *)
(* every index in a record's childIndices is strictly smaller than the     *)
(* record's own position.                                                  *)
(***************************************************************************)
Accepted == last.op = "read" /\ last.ret.err = ""
ChildrenEarlier(nodes) ==
  \A k \in 1..Len(nodes) :
    nodes[k].subs # None =>
      \A j \in 1..Len(nodes[k].subs[1]) : nodes[k].subs[1][j] >= 0 /\ nodes[k].subs[1][j] < k - 1
C10_ChildrenEmittedEarlier == Accepted => (ChildrenEarlier(last.ret.nodes) /\ last.err = "")
\* a text was accepted whose list has a group among the children of a group
C10_Witness ==
  /\ Accepted
  /\ \E k \in 1..Len(last.ret.nodes) :
       /\ last.ret.nodes[k].subs # None
       /\ \E j \in 1..Len(last.ret.nodes[k].subs[1]) :
            last.ret.nodes[last.ret.nodes[k].subs[1][j] + 1].subs # None

(***************************************************************************)
(* C11.  Parsing fails with an error and returns no tree, not even a       *)
(* partial one, whenever the text has unequal numbers of "(" and ")" (the  *)
(* Tree constructor finds that before any subtree is parsed), or has a     *)
(* character that is not whitespace after the closing ";".                 *)
(***************************************************************************)
WasRead == last.op \in {"Tree", "read"}
UnequalParentheses(text) == CountOf(text, "(") # CountOf(text, ")")
\* a ";" that closes a text whose parentheses and brackets are balanced
ClosingSemicolon(text, i) ==
  /\ text[i] = ";"
  /\ ~UnequalParentheses(SubSeq(text, 1, i))
  /\ CountOf(SubSeq(text, 1, i), "[") = CountOf(SubSeq(text, 1, i), "]")
TextAfterSemicolon(text) ==
  \E i \in 1..Len(text) : ClosingSemicolon(text, i) /\ \E j \in (i + 1)..Len(text) : ~IsSpace(text[j])
NoTree == last.err # "" /\ tree = EmptyTree

C11_MalformedTextGivesNoTree ==
  /\ (WasRead /\ (UnequalParentheses(txt) \/ TextAfterSemicolon(txt))) => NoTree
  /\ (last.op = "Tree" /\ UnequalParentheses(txt)) => last.err = "TreeError"

\* what does hold: Tree(text) fails on unequal numbers of parentheses, before
\* it parses
TreeCountsParentheses == (last.op = "Tree" /\ UnequalParentheses(txt)) => (NoTree /\ last.err = "TreeError")

(***************************************************************************)
(* C12.  The siblings of a group are split exactly at the commas outside   *)
(* every inner parenthesis group and outside every bracket comment: a      *)
(* ",", "(" or ")" inside "[...]", and an escaped "\]" inside it, never    *)
(* change how many siblings there are nor where they are split.  Stated    *)
(* on a text and the same text with its comments taken out: when a reader  *)
(* accepts the text without comments, it accepts the text and gives the    *)
(* nodes the same children.                                                *)
(***************************************************************************)
\* the place of the "]" that closes the comment opening at s[1]: the first
\* one not escaped by a backslash; 0 when there is none
CommentEnd(s) ==
  LET ends == {i \in 2..Len(s) : s[i] = "]" /\ s[i - 1] # "\\"}
  IN IF ends = {} THEN 0 ELSE CHOOSE i \in ends : \A j \in ends : i <= j
RECURSIVE Uncommented(_)
\* the text without its closed comments
Uncommented(s) ==
  IF s = <<>> THEN <<>>
  ELSE IF s[1] = "[" /\ CommentEnd(s) # 0 THEN Uncommented(Drop(s, CommentEnd(s)))
  ELSE <<s[1]>> \o Uncommented(Tail(s))
\* the text has comments, all of them closed, none of them empty and none of
\* them attributes, and no ";" but at its end
FreeComments(text) ==
  /\ Uncommented(text) # text
  /\ CountOf(Uncommented(text), "[") = 0
  /\ \A i \in 1..Len(text) : /\ text[i] \in {"&", "]"} => (i > 1 /\ text[i - 1] # "[")
                             /\ text[i] = ";" => i = Len(text)
ReaderOf(op, text) == IF op = "Tree" THEN Tree(text) ELSE parseNewickPython(text)
\* the children of every node, in order
Shape(t) == [i \in DOMAIN t.chain |-> t.chain[i].succ]
SplitsAsUncommented(op) ==
  (last.op = op /\ FreeComments(txt)) =>
     \E p \in {ReaderOf(op, Uncommented(txt))} :
        p.err = "" => (last.err = "" /\ Shape(tree) = Shape(p.t))

C12_SiblingsSplitOutsideComments == SplitsAsUncommented("Tree") /\ SplitsAsUncommented("read")

\* what does hold: _parseNewickPython skips a comment whatever is in it
ReadSplitsOutsideComments == SplitsAsUncommented("read")
\* _parseNewickPython read a text with a comma in a comment, and an escaped "]"
ReadSplitsOutsideCommentsReached ==
  /\ last.op = "read" /\ last.err = "" /\ FreeComments(txt)
  /\ \E i \in 1..Len(txt) : txt[i] = "\\"
  /\ Cardinality(DOMAIN tree.chain) = 3

(***************************************************************************)
(* C13.  Node information that has both a ":branchlength" and a "[&...]"   *)
(* comment gives the same branch length and the same attributes whichever  *)
(* of the two comes first, as in "A[&x=1]:2" and "A:2[&x=1]".  Stated on   *)
(* a text that has the comment first and the text with the two swapped:    *)
(* when a reader accepts the one, it gives the same tree for the other.    *)
(***************************************************************************)
\* how many digits the text begins with
RECURSIVE DigitsAhead(_)
DigitsAhead(s) == IF s # <<>> /\ IsDigit(s[1]) THEN 1 + DigitsAhead(Tail(s)) ELSE 0
\* an attribute comment opens at text[i], and a ":" and a number follow it
CommentThenLength(text, i) ==
  /\ i + 1 <= Len(text) /\ text[i] = "[" /\ text[i + 1] = "&"
  /\ LET e == CommentEnd(Drop(text, i - 1))
     IN /\ e # 0
        /\ i + e <= Len(text) /\ text[i + e] = ":"
        /\ DigitsAhead(Drop(text, i + e)) > 0
\* the text with the comment at text[i] and the length after it swapped
LengthThenComment(text, i) ==
  LET e == CommentEnd(Drop(text, i - 1))
      d == DigitsAhead(Drop(text, i + e))
  IN Take(text, i - 1) \o SubSeq(text, i + e, i + e + d) \o SubSeq(text, i, i + e - 1)
     \o Drop(text, i + e + d)
SameInEitherOrder(op) ==
  (last.op = op /\ last.err = "") =>
     \A i \in 1..Len(txt) :
        CommentThenLength(txt, i) =>
           ReaderOf(op, LengthThenComment(txt, i)) = [err |-> "", t |-> tree]

C13_LengthAndCommentInEitherOrder == SameInEitherOrder("Tree") /\ SameInEitherOrder("read")

\* what does hold: _parseNewickPython reads the two in either order
ReadInEitherOrder == SameInEitherOrder("read")
\* _parseNewickPython read a leaf with a comment and a length after it
ReadInEitherOrderReached ==
  /\ last.op = "read" /\ last.err = ""
  /\ \E i \in 1..Len(txt) : CommentThenLength(txt, i)
  /\ \E n \in DOMAIN tree.chain : tree.chain[n].branchlength = Some(4) /\ tree.chain[n].attributes # None

(***************************************************************************)
(* C14.  A branch length or support that the text does not give stays      *)
(* None in the node and is never stored as 0 or 0.0: a node has the        *)
(* branch length 0 only if the text gave it.  Stated on the text read: a   *)
(* node of the tree has a length or support of 0 only if the text has the  *)
(* digit 0, and has a length or support at all only if the text has a      *)
(* digit.                                                                  *)
(***************************************************************************)
HasDigit(text) == \E i \in 1..Len(text) : IsDigit(text[i])
UnsetStaysNone(t, nodes) ==
  \A n \in nodes :
     /\ (t.chain[n].branchlength = Some(0) \/ t.chain[n].support = Some(0)) => CountOf(txt, "0") > 0
     /\ (t.chain[n].branchlength # None \/ t.chain[n].support # None) => HasDigit(txt)

\* (the root, which no text of a node stands for, is left out)
C14_AbsentLengthStaysNone ==
  (WasRead /\ last.err = "") => UnsetStaysNone(tree, DOMAIN tree.chain \ {tree.root})

\* what does hold: the nodes that TreeBuilder.mergeNodes hung under a group
\* have the length of the text, or None
Merged(t) == {n \in DOMAIN t.chain : n # t.root /\ ~(t.chain[t.root].succ = <<n>> /\ t.chain[n].succ = <<>>)}
MergedKeepNone == (last.op = "read" /\ last.err = "") => UnsetStaysNone(tree, Merged(tree))
\* _parseNewickPython read a group of a leaf with a length and a leaf without
MergedKeepNoneReached ==
  /\ last.op = "read" /\ last.err = ""
  /\ \E n, m \in Merged(tree) : tree.chain[n].branchlength = None /\ tree.chain[m].branchlength = Some(0)

(***************************************************************************)
(* C15.  unroot() gives one undirected branch for every parent-child edge. *)
(* When the root has exactly two children its two edges become one branch  *)
(* that joins the two children, with the sum of the two lengths and with   *)
(* the support of the other side when one is unset, the common value when  *)
(* the two are equal, and the sum when exactly one is zero; any other pair *)
(* of supports is an error.  A root with another number of children is     *)
(* not merged.                                                             *)
(***************************************************************************)
Unrooted == last.op = "unroot"
\* the parent-child edges of t that do not touch node r
EdgesOff(t, r) == {<<t.chain[c].prev, c>> : c \in {n \in DOMAIN t.chain : t.chain[n].prev \notin {NoId, r}}}
\* branch b joins a and c with the length and support of node c
BranchOf(t, b, a, c) ==
  /\ {b[1], b[2]} = {a, c}
  /\ b[3] = t.chain[c].branchlength
  /\ b[4] = t.chain[c].support
\* the branches are one for every edge of E, and extra more
OnePerEdge(t, branches, E, extra) ==
  /\ Len(branches) = Cardinality(E) + extra
  /\ \A e \in E : \E i \in 1..Len(branches) : BranchOf(t, branches[i], e[1], e[2])
ForkedRoot(t) == Len(t.chain[t.root].succ) = 2
\* the supports s1 and s2 of the root's edges cannot be joined
SupportMismatch(s1, s2) == s1 # None /\ s2 # None /\ s1 # s2 /\ s1 # Some(0) /\ s2 # Some(0)
JoinedSupport(s1, s2) ==
  IF s1 = None THEN s2
  ELSE IF s2 = None THEN s1
  ELSE IF s1 = s2 THEN s1
  ELSE Some(s1[1] + s2[1])
\* branch b joins the two children of the root of t
JoinsChildren(t, b) ==
  LET c1 == t.chain[t.chain[t.root].succ[1]]
      c2 == t.chain[t.chain[t.root].succ[2]]
  IN /\ {b[1], b[2]} = Range(t.chain[t.root].succ)
     /\ (c1.branchlength # None /\ c2.branchlength # None)
           => b[3] = Some(c1.branchlength[1] + c2.branchlength[1])
     /\ b[4] = JoinedSupport(c1.support, c2.support)
UnrootedAsClaimed(t) ==
  IF ~ForkedRoot(t)
  THEN last.err = "" /\ OnePerEdge(t, tree.unrooted, EdgesOff(t, NoId), 0)
  ELSE IF SupportMismatch(t.chain[t.chain[t.root].succ[1]].support, t.chain[t.chain[t.root].succ[2]].support)
  THEN last.err = "TreeError"
  ELSE /\ last.err = ""
       /\ OnePerEdge(t, tree.unrooted, EdgesOff(t, t.root), 1)
       /\ \E i \in 1..Len(tree.unrooted) : JoinsChildren(t, tree.unrooted[i])

C15_UnrootMergesForkedRoot == Unrooted => UnrootedAsClaimed(last.before)

\* what does hold: the same, of a root whose two children both have a length
LengthsGiven(t) ==
  ForkedRoot(t) => \A k \in 1..2 : t.chain[t.chain[t.root].succ[k]].branchlength # None
UnrootMergesGivenLengths == (Unrooted /\ LengthsGiven(last.before)) => UnrootedAsClaimed(last.before)
\* the two edges of a root were merged, one with support 0 and one with another
UnrootMergesGivenLengthsReached ==
  /\ Unrooted /\ last.err = "" /\ ForkedRoot(last.before)
  /\ \E i \in 1..Len(tree.unrooted) : tree.unrooted[i][4] = Some(4) /\ tree.unrooted[i][3] = Some(6)
  /\ \E k \in 1..2 : last.before.chain[last.before.chain[last.before.root].succ[k]].support = Some(0)

(***************************************************************************)
(* C16.  For every well-formed tree with distinct leaf taxa and every      *)
(* taxon set S, is_monophyletic(S) returns the id of a node whose          *)
(* descendant leaf-taxon set is exactly S if there is such a node, and     *)
(* returns -1 if and only if there is none; the descent terminates.        *)
(***************************************************************************)
RECURSIVE Descendants(_, _)
\* n and the nodes below it
Descendants(t, n) == {n} \cup UNION {Descendants(t, c) : c \in Range(t.chain[n].succ)}
\* the taxa of the leaves at or below n
LeafTaxa(t, n) == {t.chain[m].taxon : m \in Descendants(t, n) \cap Leaves(t)}
NodesOf(t, S) == {n \in DOMAIN t.chain : LeafTaxa(t, n) = S}
DistinctLeafTaxa(t) == \A a, b \in Leaves(t) : t.chain[a].taxon = t.chain[b].taxon => a = b
Queried == last.op = "is_monophyletic" /\ WellFormed(tree) /\ DistinctLeafTaxa(tree)

C16_MonophyleticFindsTheNode ==
  Queried => /\ last.err = ""
             /\ NodesOf(tree, last.arg) # {} => last.ret \in NodesOf(tree, last.arg)
             /\ last.ret = -1 <=> NodesOf(tree, last.arg) = {}
\* the node of two taxa was found below the root
C16_Witness ==
  /\ Queried /\ Cardinality(last.arg) = 2
  /\ last.ret \notin {-1, tree.root}
  /\ \E S \in SUBSET LeafTaxa(tree, tree.root) : S # {} /\ NodesOf(tree, S) = {}

(***************************************************************************)
(* C17.  root_with_outgroup(taxa) with a taxon set that is not             *)
(* monophyletic in the tree fails, which it reports to the caller by       *)
(* returning -1, and leaves the tree as it was: the same root, nodes,      *)
(* links, branch lengths and supports.  It leaves the tree as it was, too, *)
(* when the node of the outgroup is already one of the two children of a   *)
(* forked root.                                                            *)
(***************************************************************************)
Rerooted == last.op = "root_with_outgroup"
NotMonophyletic == NodesOf(last.before, last.arg) = {}
AlreadyOutgroup ==
  /\ ForkedRoot(last.before)
  /\ NodesOf(last.before, last.arg) \cap Range(last.before.chain[last.before.root].succ) # {}

C17_NoOutgroupNoChange ==
  Rerooted => /\ NotMonophyletic => (last.ret = -1 /\ last.err = "" /\ tree = last.before)
              /\ AlreadyOutgroup => (last.ret = tree.root /\ last.err = "" /\ tree = last.before)
\* the call was given two taxa of a tree that has no node of just the two
C17_Witness ==
  /\ Rerooted /\ NotMonophyletic
  /\ Cardinality(last.arg) = 2 /\ last.arg \subseteq LeafTaxa(last.before, last.before.root)
  /\ Internal(last.before) # {}

(***************************************************************************)
(* C18.  TreeBuilder.finalize(candidate): when the candidate has children, *)
(* afterwards the children of the placeholder root are the candidate's     *)
(* children in the same order, each has the root as its parent, the        *)
(* candidate is no longer in the tree, and the candidate's attributes are  *)
(* on the root; when it has none, it becomes the only child of the root.   *)
(* Either way the root is the only node of the returned tree without a     *)
(* parent.  Stated of the call that ends _build, on the nodes _build made  *)
(* of the records of the text.                                             *)
(***************************************************************************)
Built == last.op = "read" /\ last.err = ""
\* the builder's tree and the candidate, as _build hands them to finalize
Candidate == buildLoop(last.ret.nodes, 1, EmptyTree, <<>>)
FinalizedAsClaimed(t, c) ==
  LET root == tree.chain[tree.root]
  IN /\ tree.root = t.root
     /\ IF t.chain[c].succ # <<>>
        THEN /\ root.succ = t.chain[c].succ
             /\ \A k \in Range(t.chain[c].succ) : tree.chain[k].prev = tree.root
             /\ c \notin DOMAIN tree.chain
             /\ t.chain[c].attributes # None => root.attributes = t.chain[c].attributes
        ELSE /\ root.succ = <<c>>
             /\ tree.chain[c].prev = tree.root
     /\ {n \in DOMAIN tree.chain : tree.chain[n].prev = NoId} = {tree.root}

C18_FinalizeSplicesCandidate == Built => FinalizedAsClaimed(Candidate.t, Last(Candidate.ids))
\* the candidate had two children and attributes, and is gone
C18_Witness ==
  /\ Built
  /\ Len(tree.chain[tree.root].succ) = 2
  /\ tree.chain[tree.root].attributes # None
  /\ Last(Candidate.ids) \notin DOMAIN tree.chain

(***************************************************************************)
(* C19.  rootByTipVarianceOptimization picks an edge and an offset in      *)
(* [0, edge length] such that the variance of the root-to-tip distances    *)
(* at that point is the least over all the points of all the edges of the  *)
(* tree.  The variance at a point is worked out here from the paths to     *)
(* the tips, not from the sums of the code; the points compared are those  *)
(* at every Grid-th of a half unit along every edge.                       *)
(***************************************************************************)
Grid == 6
Optimised == last.op = "rootByTipVarianceOptimization"
\* the length of the path between nodes a and b
PathLength(t, a, b) ==
  DistanceToRoot(t, a) + DistanceToRoot(t, b) - 2 * DistanceToRoot(t, common_ancestor(t, a, b))
\* g times the distance to tip from the point k g-ths above node m
ToTip(t, m, k, g, tip) ==
  IF m \in Range(trace(t, tip)) THEN g * PathLength(t, m, tip) + k ELSE g * PathLength(t, m, tip) - k
SumOver(t, f(_)) == SumSeq([i \in 1..Len(get_terminals(t)) |-> f(get_terminals(t)[i])])
\* the variance of the distances to the tips at that point, as a fraction
VarianceAt(t, m, k, g) ==
  LET nl == Len(get_terminals(t))
      sum == SumOver(t, LAMBDA tip : ToTip(t, m, k, g, tip))
      squares == SumOver(t, LAMBDA tip : ToTip(t, m, k, g, tip) * ToTip(t, m, k, g, tip))
  IN Frac(nl * squares - sum * sum, nl * nl * g * g)
LeastVariance(t, loc) ==
  /\ loc.n \in DOMAIN t.chain \ {t.root}
  /\ ~FrLess(loc.dx, Whole(0)) /\ ~FrLess(Whole(t.chain[loc.n].branchlength[1]), loc.dx)
  /\ loc.val = Some(VarianceAt(t, loc.n, loc.dx[1], loc.dx[2]))
  /\ \A m \in DOMAIN t.chain \ {t.root} :
        \A k \in 0..(Grid * t.chain[m].branchlength[1]) : ~FrLess(VarianceAt(t, m, k, Grid), loc.val[1])

\* the text emitted has the subtree of the edge picked on its right, dx
\* below the new root
RerootedAt(t, loc, rep) ==
  /\ rep[3] = toNewick(t, loc.n, FALSE, FALSE, FALSE, FALSE).txt
  /\ rep[4] = loc.dx
VarianceIsLeastUnderForkedRoot ==
  (Optimised /\ LengthsSet(tree) /\ Len(tree.chain[tree.root].succ) >= 2)
     => (last.err = "" /\ LeastVariance(tree, last.ret.minLoc))
HelperBuiltAt == last.op = "CAhelper" /\ last.arg # {} /\ last.err = ""
Crosses(t, n) == t.chain[n].rh <= t.th[1] /\ t.th[1] < t.chain[t.chain[n].prev].rh
CrootIsCrossing(t) == \A n \in DOMAIN t.chain \ {t.root} : t.chain[n].croot = Crosses(t, n)
OneCrootPerPath(t) ==
  (0 <= t.th[1] /\ t.th[1] < t.chain[t.root].rh)
     => \A leaf \in Leaves(t) : Cardinality({n \in Range(trace(t, leaf)) : t.chain[n].croot}) = 1
C20_CrootMarksTheCrossedEdge ==
  HelperBuiltAt => (CrootIsCrossing(tree) /\ OneCrootPerPath(tree))

\* what does hold: the same, of a tree whose tips are all as far from the root
Ultrametric(t) == \A a, b \in Leaves(t) : DistanceToRoot(t, a) = DistanceToRoot(t, b)
CrootMarksUnderEqualTips ==
  (HelperBuiltAt /\ Ultrametric(last.before)) => (CrootIsCrossing(tree) /\ OneCrootPerPath(tree))
\* a threshold inside an inner edge of a tree with equal tips
CrootMarksUnderEqualTipsReached ==
  /\ HelperBuiltAt /\ Ultrametric(last.before)
  /\ 0 < tree.th[1] /\ tree.th[1] < tree.chain[tree.root].rh
  /\ \E n \in DOMAIN tree.chain \ Leaves(tree) : n # tree.root /\ tree.chain[n].croot

(***************************************************************************)
(* C21.  is_compatible(A, B, threshold) considers every clade of a node    *)
(* with children, of A and of B, whose support is at least threshold, and  *)
(* reports a conflict for a pair of them, one of each tree, exactly when   *)
(* neither is a subset of the other, they share a taxon, and neither has   *)
(* beyond the other only taxa that the other tree lacks; under strict,     *)
(* trees of different taxa are an error.  When both trees have the same    *)
(* taxa the result is empty exactly when every such pair is nested or      *)
(* disjoint.                                                               *)
(***************************************************************************)
Compared == last.op = "is_compatible"
TaxaUnder(t, n) == Range(get_taxa(t, n))
\* the nodes with children whose support is at least th
Considered(t, th) ==
  {n \in DOMAIN t.chain : t.chain[n].succ # <<>> /\ t.chain[n].support # None /\ t.chain[n].support[1] >= th}
NestedOrDisjoint(S1, S2) == S1 \subseteq S2 \/ S2 \subseteq S1 \/ S1 \cap S2 = {}
Conflicting(A, B, S1, S2) ==
  /\ ~NestedOrDisjoint(S1, S2)
  /\ ~((S2 \ S1) \subseteq (TaxaSet(B) \ TaxaSet(A)))
  /\ ~((S1 \ S2) \subseteq (TaxaSet(A) \ TaxaSet(B)))
ConsideredPairs(A, B, th) ==
  {<<TaxaUnder(A, n), TaxaUnder(B, m)>> : n \in Considered(A, th), m \in Considered(B, th)}
ReportedPairs(ret) == {<<ret[k][1], ret[k][3]>> : k \in 1..Len(ret)}
ConflictsAsClaimed(A, B, th, strict) ==
  IF strict /\ TaxaSet(A) # TaxaSet(B) THEN last.err # ""
  ELSE /\ last.err = ""
       /\ ReportedPairs(last.ret) = {c \in ConsideredPairs(A, B, th) : Conflicting(A, B, c[1], c[2])}
       /\ TaxaSet(A) = TaxaSet(B) =>
             (last.ret = <<>> <=> \A c \in ConsideredPairs(A, B, th) : NestedOrDisjoint(c[1], c[2]))
C21_ConflictsOfSupportedClades ==
  Compared => ConflictsAsClaimed(tree, last.arg.tree2, last.arg.threshold, last.arg.strict)

\* what does hold: the same under a threshold above 0
ConflictsUnderPositiveThreshold ==
  (Compared /\ last.arg.threshold > 0)
     => ConflictsAsClaimed(tree, last.arg.tree2, last.arg.threshold, last.arg.strict)
\* a conflict reported between trees one of which lacks a taxon of the other
ConflictsUnderPositiveThresholdReached ==
  /\ Compared /\ last.arg.threshold > 0 /\ last.err = ""
  /\ TaxaSet(tree) # TaxaSet(last.arg.tree2)
  /\ last.ret # <<>>
  /\ Cardinality(ConsideredPairs(tree, last.arg.tree2, last.arg.threshold)) > Len(last.ret)

(***************************************************************************)
(* C22.  Whenever root_with_outgroup rebuilds the tree and returns, the    *)
(* list of branches it took from unroot() is empty at the return: each of  *)
(* those branches, and the two added for the new root, was used by one     *)
(* link, so every node of the old tree, a two-child old root apart, hangs  *)
(* under the new root.                                                     *)
(***************************************************************************)
Rebuilt == Returned("root_with_outgroup") /\ last.ret # -1 /\ tree.root # last.before.root
Links(t) == {<<t.chain[n].prev, n>> : n \in {i \in DOMAIN t.chain : t.chain[i].prev # NoId}}
Eliminated(t) == IF Len(t.chain[t.root].succ) = 2 THEN {t.root} ELSE {}
BranchesConsumed(before, t) ==
  /\ t.unrooted = <<>>
  /\ Cardinality(Links(t)) = Len(unroot(before).t.unrooted) + 1
  /\ \A n \in DOMAIN before.chain \ Eliminated(before) :
        n \in DOMAIN t.chain /\ ReachesRoot(t, n, Cardinality(DOMAIN t.chain))
  /\ Eliminated(before) \cap DOMAIN t.chain = {}
C22_BranchListConsumed == Rebuilt => BranchesConsumed(last.before, tree)
\* a rebuild, as the second call, of a tree whose root had three children
C22_Witness ==
  /\ Rebuilt /\ steps = 2
  /\ Len(last.before.chain[last.before.root].succ) >= 3
  /\ Cardinality(DOMAIN tree.chain) >= 5

(***************************************************************************)
(* C23.  prune(taxon) of the taxon of a leaf removes just that leaf, and   *)
(* its parent too, by a collapse, when the parent is not the root and is   *)
(* left with one child, whose branch length then grows by the parent's.    *)
(* The taxa of the leaves are then the old ones less the pruned one, and   *)
(* the sum of the branch lengths from the root to every leaf that is left  *)
(* is as before.  prune of a taxon that the tree does not have, or that is *)
(* not on a leaf, raises and leaves the tree as it was.                    *)
(***************************************************************************)
Pruned == last.op = "prune"
PrunedTaxon == CHOOSE x \in last.arg : TRUE
PrunedNode == search_taxon(last.before, PrunedTaxon)
\* the parent that the prune is to collapse, if any
Collapsed(before, leaf) ==
  LET prev == before.chain[leaf].prev
  IN IF prev # NoId /\ prev # before.root /\ Len(before.chain[prev].succ) = 2 THEN {prev} ELSE {}
NamedLeafTaxa(t) == {t.chain[n].taxon : n \in Leaves(t)} \ {None}
PathHasLengths(t, n) == \A m \in Range(trace(t, n)) \ {t.root} : t.chain[m].branchlength # None
PrunedAsClaimed(before, t, leaf) ==
  /\ last.err = ""
  /\ DOMAIN t.chain = DOMAIN before.chain \ ({leaf} \cup Collapsed(before, leaf))
  /\ \A prev \in Collapsed(before, leaf) : \A c \in Range(before.chain[prev].succ) \ {leaf} :
        /\ t.chain[c].prev = before.chain[prev].prev
        /\ t.chain[c].branchlength = Some(before.chain[c].branchlength[1] + before.chain[prev].branchlength[1])
  /\ NamedLeafTaxa(t) = NamedLeafTaxa(before) \ {before.chain[leaf].taxon}
  /\ \A n \in Leaves(t) \cap Leaves(before) :
        PathHasLengths(before, n) => DistanceToRoot(t, n) = DistanceToRoot(before, n)
C23_PruneRemovesTheLeaf ==
  Pruned => IF PrunedNode # NoId /\ PrunedNode \in Leaves(last.before) /\ PrunedNode # last.before.root
            THEN PrunedAsClaimed(last.before, tree, PrunedNode)
            ELSE last.err # "" /\ tree = last.before

\* what does hold: the same of a tree whose nodes other than the root all
\* have a branch length
PruneRemovesTheLeafGivenLengths ==
  (Pruned /\ LengthsSet(last.before))
     => IF PrunedNode # NoId /\ PrunedNode \in Leaves(last.before) /\ PrunedNode # last.before.root
        THEN PrunedAsClaimed(last.before, tree, PrunedNode)
        ELSE last.err # "" /\ tree = last.before
\* a prune that collapsed the parent of the leaf, a parent with a length
PruneRemovesTheLeafGivenLengthsReached ==
  /\ Pruned /\ LengthsSet(last.before) /\ last.err = ""
  /\ PrunedNode # NoId /\ Collapsed(last.before, PrunedNode) # {}
  /\ \E prev \in Collapsed(last.before, PrunedNode) : last.before.chain[prev].branchlength[1] > 0

(***************************************************************************)
(* C24.  toNewick is a canonical form: of two trees that differ only by    *)
(* the order of the children of any of their nodes it returns the same     *)
(* text, without the branch lengths and, the lengths being the same, with  *)
(* them.                                                                   *)
(***************************************************************************)
WrittenTwice == last.op = "toNewick" /\ Len(last.ret) = 2 /\ last.err = ""
RECURSIVE Unordered(_, _)
\* the subtree of n whatever the order of the children: taxon, length and
\* the bag of the children's subtrees
Unordered(t, n) ==
  [taxon |-> t.chain[n].taxon,
   branchlength |-> IF n = t.root THEN None ELSE t.chain[n].branchlength,
   subs |-> LET kids == t.chain[n].succ
                subs == [i \in 1..Len(kids) |-> Unordered(t, kids[i])]
            IN [x \in Range(subs) |-> Cardinality({i \in 1..Len(kids) : subs[i] = x})]]
DifferByOrderOnly(t1, t2) == Unordered(t1, t1.root) = Unordered(t2, t2.root)
C24_ToNewickIsCanonical ==
  (WrittenTwice /\ DifferByOrderOnly(tree, last.arg.tree2)) => last.ret[1] = last.ret[2]
\* the second tree has another first child of the root, the trees have
\* lengths, and the text written is in neither tree's order of children
C24_Witness ==
  /\ WrittenTwice /\ DifferByOrderOnly(tree, last.arg.tree2)
  /\ Unordered(tree, tree.chain[tree.root].succ[1])
       # Unordered(last.arg.tree2, last.arg.tree2.chain[last.arg.tree2.root].succ[1])
  /\ ~last.arg.topologyOnly /\ LengthsSet(tree) /\ Len(get_terminals(tree)) >= 3
  /\ \A t \in {tree, last.arg.tree2} :
        toNewick(t, t.root, FALSE, FALSE, FALSE, FALSE).txt # reorderedText(t, t.root, {}, 0)

(***************************************************************************)
(* C25.  When root_with_outgroup rebuilds a tree whose branch lengths are  *)
(* all set, the length of the path between any two leaves is after the     *)
(* call what it was before; the branch from the new root to the outgroup   *)
(* has length 0 and the branch to the ingroup has the whole length of the  *)
(* branch that was split.                                                  *)
(***************************************************************************)
OutgroupNode == is_monophyletic(last.before, last.arg)
PathsKept(before, t) ==
  \A a, b \in Leaves(before) \cap Leaves(t) : PathLength(t, a, b) = PathLength(before, a, b)
RootBranchSplit(before, t, outgroup_node) ==
  /\ outgroup_node \in Range(t.chain[t.root].succ)
  /\ Len(t.chain[t.root].succ) = 2
  /\ t.chain[outgroup_node].branchlength = Some(0)
  /\ \A ingroup_node \in Range(t.chain[t.root].succ) \ {outgroup_node} :
        t.chain[ingroup_node].branchlength = before.chain[outgroup_node].branchlength
C25_RerootKeepsPathLengths ==
  (Rebuilt /\ LengthsSet(last.before))
     => (LengthsSet(tree) /\ PathsKept(last.before, tree) /\ RootBranchSplit(last.before, tree, OutgroupNode))
\* the rebuild split a branch with a length, of a tree whose root had three
\* children, and hung a node under a node that was its child
C25_Witness ==
  /\ Rebuilt /\ LengthsSet(last.before)
  /\ last.before.chain[OutgroupNode].branchlength[1] > 0
  /\ Len(last.before.chain[last.before.root].succ) = 3
  /\ \E n \in DOMAIN last.before.chain \cap DOMAIN tree.chain :
        tree.chain[n].prev \in Range(last.before.chain[n].succ)

(***************************************************************************)
(* C26.  Building a CAhelper on a tree of two leaves or more overwrites    *)
(* the branch lengths so that every node c but the root, with parent n,    *)
(* has the length rh(n) - rh(c), where rh of a leaf is 0 and rh(n) is the  *)
(* greatest rh(child) + length of the child as it was; no length gets      *)
(* smaller, and every leaf is then rh(root) away from the root.  No length *)
(* changes when the leaves were all as far from the root already.          *)
(***************************************************************************)
RECURSIVE ReferenceHeight(_, _)
\* rh of node n from the lengths of t
ReferenceHeight(t, n) ==
  IF t.chain[n].succ = <<>> THEN 0
  ELSE MaxOf([k \in 1..Len(t.chain[n].succ) |->
                ReferenceHeight(t, t.chain[n].succ[k]) + t.chain[t.chain[n].succ[k]].branchlength[1]])
Reconciled(before, t) ==
  /\ \A n \in DOMAIN t.chain : t.chain[n].rh = ReferenceHeight(before, n)
  /\ \A c \in DOMAIN t.chain \ {t.root} :
        /\ t.chain[c].branchlength =
             Some(ReferenceHeight(before, t.chain[c].prev) - ReferenceHeight(before, c))
        /\ t.chain[c].branchlength[1] >= before.chain[c].branchlength[1]
  /\ \A leaf \in Leaves(t) : DistanceToRoot(t, leaf) = ReferenceHeight(before, t.root)
  /\ Ultrametric(before) =>
        \A n \in DOMAIN t.chain : t.chain[n].branchlength = before.chain[n].branchlength
HelperBuilt == last.op = "CAhelper" /\ last.err = ""
ConsensusAboveHalf ==
  last.op = "consensus" /\ SameTaxa(last.before) /\ last.arg.threshold > 1 /\ last.arg.threshold <= 2
\* the clades of the table that the weeding keeps
Surviving(clades, threshold) ==
  {Range(clades[k].key) : k \in {j \in 1..Len(clades) : ~FxLess(clades[j].p, FxHalves(threshold))}}
ConsensusWellFormed(c, inputs) ==
  /\ OneParentlessNode(c) /\ ChildOfItsParentOnly(c) /\ Acyclic(c)
  /\ \A taxon \in TaxaSet(inputs[1]) : Cardinality({n \in Leaves(c) : c.chain[n].taxon = taxon}) = 1
  /\ \A n \in Leaves(c) : c.chain[n].taxon \in TaxaSet(inputs[1])
  /\ CladeOf(c, c.root) = TaxaSet(inputs[1])
  /\ {CladeOf(c, n) : n \in DOMAIN c.chain \ {c.root}} = Surviving(last.clades, last.arg.threshold)
  /\ Cardinality(DOMAIN c.chain) = Cardinality(Surviving(last.clades, last.arg.threshold)) + 1
C27_ConsensusIsWellFormed ==
  ConsensusAboveHalf => (last.err = "" /\ last.ret # None /\ ConsensusWellFormed(last.ret[1], last.before))

\* what does hold: the same whenever the frequency added up for each leaf,
\* which is in every tree, is not short of 1.0
LeafFrequenciesAddUp ==
  \A k \in 1..Len(last.clades) :
     Cardinality(Range(last.clades[k].key)) = 1 => ~FxLess(last.clades[k].p, FxHalves(2))
ConsensusIsWellFormedIfSumsAddUp ==
  (ConsensusAboveHalf /\ LeafFrequenciesAddUp)
     => (last.err = "" /\ last.ret # None /\ ConsensusWellFormed(last.ret[1], last.before))
\* the consensus of trees that do not all have the same clades
ConsensusIsWellFormedIfSumsAddUpReached ==
  /\ ConsensusAboveHalf /\ LeafFrequenciesAddUp /\ Len(last.before) >= 2 /\ last.err = ""
  /\ \E j, k \in 1..Len(last.before) : InternalClades(last.before[j]) # InternalClades(last.before[k])
  /\ Cardinality(DOMAIN last.ret[1].chain) = Cardinality(TaxaSet(last.before[1])) + 1

(***************************************************************************)
(* treeutils.getCommonAncesstor: the fold of the earlier implementation    *)
(* and the loop of the trunk                                               *)
(***************************************************************************)
RECURSIVE getCommonAncesstorFold(_, _)
\* src/biopy: reduce(tree.common_ancestor, taxaIds), a left fold
getCommonAncesstorFold(t, taxaIds) ==
  IF Len(taxaIds) = 1 THEN taxaIds[1]
  ELSE common_ancestor(t, getCommonAncesstorFold(t, SubSeq(taxaIds, 1, Len(taxaIds) - 1)),
                       Last(taxaIds))

\* the loop left out: the ancestor of the first two ids is returned
getCommonAncesstorLoopLeftOut(t, i, s, rounds) == {[ret |-> i, rounds |-> rounds]}
RECURSIVE getCommonAncesstorLoop(_, _, _, _)
\* trunk, lines 198-200: while len(t), with t.pop() taking any element of
\* the set; every outcome with the number of rounds it took
getCommonAncesstorLoop(t, i, s, rounds) ==
  IF s = {} THEN {[ret |-> i, rounds |-> rounds]}
  ELSE UNION { LET j == common_ancestor(t, i, x)
               IN getCommonAncesstorLoop(t, j, (s \ {x}) \ Range(get_taxa_ids(t, j)), rounds + 1)
               : x \in s }

\* trunk, lines 188-201
getCommonAncesstor(t, taxaIds) ==
  IF Len(taxaIds) = 1 THEN {[ret |-> taxaIds[1], rounds |-> 0]}
  ELSE LET i == common_ancestor(t, taxaIds[1], taxaIds[2])
       IN IF Len(taxaIds) > 2
          THEN getCommonAncesstorLoop(t, i,
                  Range(SubSeq(taxaIds, 3, Len(taxaIds))) \ Range(get_taxa_ids(t, i)), 0)
          ELSE {[ret |-> i, rounds |-> 0]}

(***************************************************************************)
(* Both implementations asked for the ancestor of leaves of a tree as      *)
(* read, or pruned once                                                    *)
(***************************************************************************)
MaxIds == 4

\* getCommonAncesstor(tree, taxaIds) of the trunk; last.fold is what the
\* earlier implementation returns for the same arguments
GetCommonAncesstor(taxaIds) ==
  /\ last.op # "getCommonAncesstor"
  /\ \E r \in getCommonAncesstor(tree, taxaIds) :
        last' = [op |-> "getCommonAncesstor", arg |-> taxaIds, ret |-> r.ret, err |-> "",
                 before |-> tree, rounds |-> r.rounds,
                 fold |-> getCommonAncesstorFold(tree, taxaIds)]
  /\ UNCHANGED <<txt, tree, ok, steps>>

NextAncestor ==
  \/ \E taxon \in Taxa : Prune(taxon, 1)
  \/ \E n \in 1..MaxIds : \E taxaIds \in [1..n -> Range(get_terminals(tree))] :
       GetCommonAncesstor(taxaIds)

SpecAncestor == InitVariance /\ [][NextAncestor]_vars

(***************************************************************************)
(* C28.  For every tree and every non-empty list of ids of its leaves the  *)
(* loop of the trunk's getCommonAncesstor, which passes over the leaves    *)
(* already under the ancestor found so far, returns the node that the left *)
(* fold of common_ancestor over the list returns, whatever the order in    *)
(* which the set gives up its elements, and it ends: it makes at most one  *)
(* round per id after the first two.  That node is the lowest node with    *)
(* all the leaves of the list under it.                                    *)
(***************************************************************************)
AncestorAsked == last.op = "getCommonAncesstor"
\* the nodes of t that have every leaf of ids under them (or are that leaf)
Above(t, ids) == {n \in DOMAIN t.chain : Range(ids) \subseteq Range(get_taxa_ids(t, n))}
C28_LoopAgreesWithFold ==
  AncestorAsked =>
     /\ last.ret = last.fold
     /\ last.rounds <= Cardinality(Range(SubSeq(last.arg, 3, Len(last.arg))))
     /\ last.ret \in Above(tree, last.arg)
     /\ \A n \in Above(tree, last.arg) : last.ret \in Range(trace(tree, n)) => n = last.ret
\* a list of three different leaves or more, whose third is not under the
\* ancestor of the first two, so that the loop runs, and one that it skips
C28_Witness ==
  /\ AncestorAsked /\ Len(last.arg) >= 4 /\ last.rounds >= 1
  /\ last.rounds < Cardinality(Range(SubSeq(last.arg, 3, Len(last.arg))))
  /\ last.ret # common_ancestor(tree, last.arg[1], last.arg[2])
  /\ last.ret # tree.root

(***************************************************************************)
(* ITrees.Tree.to_string, with support_as_branchlengths, branchlengths_only*)
(* and plain as they are by default: make_info_string gives ''             *)
(***************************************************************************)
RECURSIVE newickize(_, _)
\* lines 526-533; taxon+'' of a leaf without taxon raises TypeError
newickize(t, node) ==
  IF t.chain[node].succ = <<>>
  THEN IF t.chain[node].taxon = None THEN [txt |-> <<>>, err |-> "TypeError"]
       ELSE [txt |-> t.chain[node].taxon[1], err |-> ""]
  ELSE LET subs == [k \in 1..Len(t.chain[node].succ) |-> newickize(t, t.chain[node].succ[k])]
       IN IF \E k \in 1..Len(subs) : subs[k].err # ""
          THEN [txt |-> <<>>, err |-> "TypeError"]
          ELSE [txt |-> <<"(">> \o Join([k \in 1..Len(subs) |-> subs[k].txt], <<",">>) \o <<")">>,
                err |-> ""]

\* str(round(float(weight), 3)) of a weight in halves: '0.5', '1.0', '1.5', ..
WeightText(weight) == DigitsOf(weight \div 2) \o <<".">> \o (IF weight % 2 = 1 THEN <<"5">> ELSE <<"0">>)

\* lines 535-546: the list treeline
treeline(t, weight, rooted, name) ==
  LET subs == [k \in 1..Len(t.chain[t.root].succ) |-> newickize(t, t.chain[t.root].succ[k])]
  IN IF \E k \in 1..Len(subs) : subs[k].err # "" THEN [line |-> <<>>, err |-> "TypeError"]
     ELSE [line |-> <<<<"t", "r", "e", "e">>>>
                    \o (IF name # <<>> THEN <<name>> ELSE <<<<"a", "_", "t", "r", "e", "e">>>>)
                    \o <<<<"=">>>>
                    \o (IF weight # 2 THEN <<<<"[", "&", "W">> \o WeightText(weight) \o <<"]">>>> ELSE <<>>)
                    \o (IF rooted THEN <<<<"[", "&", "R", "]">>>> ELSE <<>>)
                    \o << <<"(">> \o Join([k \in 1..Len(subs) |-> subs[k].txt], <<",">>) \o <<")", ";">> >>,
           err |-> ""]

\* to_string(plain_newick=..) of a tree of the given weight, rooted and name
to_string(t, weight, rooted, name, plain_newick) ==
  LET tl == treeline(t, weight, rooted, name)
  IN IF tl.err # "" THEN [ret |-> <<>>, line |-> <<>>, err |-> tl.err]
     ELSE [ret |-> IF plain_newick THEN tl.line[Len(tl.line) - 1] ELSE Join(tl.line, <<" ">>),
           line |-> tl.line, err |-> ""]

(***************************************************************************)
(* to_string of a tree as read, or pruned once.  The weight, the rooted    *)
(* flag and the name of the tree are set when it is made and changed by    *)
(* no method; they are given with the call.                                *)
(***************************************************************************)
Weights == 1..4
Names == {<<>>, <<"t", "1">>}

\* last.line is the list treeline that the call has built
TreeToString(weight, rooted, name, plain_newick) ==
  /\ last.op # "to_string"
  /\ \E r \in {to_string(tree, weight, rooted, name, plain_newick)} :
        /\ last' = [op |-> "to_string",
                    arg |-> [weight |-> weight, rooted |-> rooted, name |-> name,
                             plain_newick |-> plain_newick],
                    ret |-> r.ret, err |-> r.err, before |-> tree, line |-> r.line]
        /\ ok' = (ok /\ r.err = "")
  /\ UNCHANGED <<txt, tree, steps>>

NextToString ==
  \/ \E taxon \in Taxa : Prune(taxon, 1)
  \/ \E weight \in Weights, rooted \in BOOLEAN, name \in Names, plain_newick \in BOOLEAN :
       TreeToString(weight, rooted, name, plain_newick)

SpecToString == InitVariance /\ [][NextToString]_vars

(***************************************************************************)
(* C29.  to_string builds the line 'tree <name> = [&W<weight>] [&R]        *)
(* (<newick>);' with the weight marker there exactly when the weight is    *)
(* not 1 and the rooted marker exactly when the tree is rooted, and with   *)
(* plain_newick=True it returns the last element of that line alone, the   *)
(* '(<newick>);', whatever the weight and the rooted flag.                 *)
(***************************************************************************)
Written == last.op = "to_string" /\ last.err = ""
\* the text in brackets is a Newick text of the tree: read, it gives the
\* tree again; of a tree that is a root alone the brackets are empty
NewickOf(text, t) ==
  /\ Len(text) >= 3 /\ text[1] = "(" /\ SubSeq(text, Len(text) - 1, Len(text)) = <<")", ";">>
  /\ t.chain[t.root].succ = <<>> => text = <<"(", ")", ";">>
  /\ t.chain[t.root].succ # <<>> => \E p \in {parseNewickPython(text)} :
        /\ p.err = ""
        /\ toNewick(p.t, p.t.root, TRUE, FALSE, FALSE, FALSE).txt
             = toNewick(t, t.root, TRUE, FALSE, FALSE, FALSE).txt
LineAsClaimed(words, t, a) ==
  /\ Len(words) = 4 + (IF a.weight # 2 THEN 1 ELSE 0) + (IF a.rooted THEN 1 ELSE 0)
  /\ words[1] = <<"t", "r", "e", "e">>
  /\ words[2] = (IF a.name = <<>> THEN <<"a", "_", "t", "r", "e", "e">> ELSE a.name)
  /\ words[3] = <<"=">>
  /\ a.weight # 2 => words[4] = <<"[", "&", "W">> \o WeightText(a.weight) \o <<"]">>
  /\ a.rooted => words[Len(words) - 1] = <<"[", "&", "R", "]">>
  /\ NewickOf(Last(words), t)
C29_ToStringLine ==
  Written =>
     /\ LineAsClaimed(last.line, last.before, last.arg)
     /\ ~last.arg.plain_newick => last.ret = Join(last.line, <<" ">>)
     /\ last.arg.plain_newick => last.ret = Last(last.line)

\* what does hold: the line is as claimed, and with plain_newick the element
\* before the last one is returned: the rooted marker, else the weight
\* marker, else '='
ToStringReturnsLastButOne ==
  Written =>
     /\ LineAsClaimed(last.line, last.before, last.arg)
     /\ ~last.arg.plain_newick => /\ last.ret = Join(last.line, <<" ">>)
                                  /\ SplitOn(last.ret, " ") = last.line
     /\ last.arg.plain_newick =>
          last.ret = IF last.arg.rooted THEN <<"[", "&", "R", "]">>
                     ELSE IF last.arg.weight # 2
                          THEN <<"[", "&", "W">> \o WeightText(last.arg.weight) \o <<"]">>
                          ELSE <<"=">>
ToStringReturnsLastButOneReached ==
  /\ Written /\ last.arg.plain_newick /\ last.arg.rooted /\ last.arg.weight # 2
  /\ Cardinality(DOMAIN last.before.chain) >= 5

(***************************************************************************)
(* treeutils.nodeHeights(tree, nids = None, allTipsZero): a map from node  *)
(* ids to heights, in halves.  A length that is not set is None, which     *)
(* compares below every number and cannot be added or subtracted.          *)
(***************************************************************************)
\* heights[n] = v
heightSet(heights, n, v) == [x \in DOMAIN heights \cup {n} |-> IF x = n THEN v ELSE heights[x]]

\* only the first of tips, the son, is moved up
raisedFirstOnly(heights, tips, dx, h) ==
  heightSet(heights, tips[1], IF heights[tips[1]] + dx < h THEN heights[tips[1]] + dx ELSE h)
\* lines 307-310 and 315-317: heights[n] = min(heights[n] + dx, h) for n in tips
raised(heights, tips, dx, h) ==
  [x \in DOMAIN heights |->
     IF x \in Range(tips) THEN (IF heights[x] + dx < h THEN heights[x] + dx ELSE h)
     ELSE heights[x]]

RECURSIVE collectNodeHeights(_, _, _)
RECURSIVE collectNodeHeightsOf(_, _, _)
\* line 302-303: [_collectNodeHeights(tree, c, heights) for c in node.succ]
collectNodeHeightsOf(t, succ, heights) ==
  IF succ = <<>> THEN [rs |-> <<>>, heights |-> heights, err |-> ""]
  ELSE LET r == collectNodeHeights(t, succ[1], heights)
       IN IF r.err # "" THEN [rs |-> <<>>, heights |-> r.heights, err |-> r.err]
          ELSE LET more == collectNodeHeightsOf(t, Tail(succ), r.heights)
               IN [rs |-> <<r>> \o more.rs, heights |-> more.heights, err |-> more.err]
\* _collectNodeHeights(tree, nid, heights): hs is <<the height at the far end
\* of the branch of nid>>, tips the nodes at nid and under it
collectNodeHeights(t, nid, heights) ==
  LET node == t.chain[nid]
      fail(hts, e) == [hs |-> None, tips |-> <<>>, heights |-> hts, err |-> e]
  IN IF node.succ = <<>>
     THEN [hs |-> node.branchlength, tips |-> <<nid>>, heights |-> heightSet(heights, nid, 0),
           err |-> ""]
     ELSE LET sub == collectNodeHeightsOf(t, node.succ, heights)
          IN IF sub.err # "" THEN fail(sub.heights, sub.err)
             ELSE IF Len(node.succ) # 2 THEN fail(sub.heights, "ValueError")
             ELSE LET hs0 == sub.rs[1].hs
                      hs1 == sub.rs[2].hs
                      tips0 == sub.rs[1].tips
                      tips1 == sub.rs[2].tips
                  IN IF hs0 = None \/ hs1 = None THEN fail(sub.heights, "TypeError")
                     ELSE LET h == IF hs0[1] < hs1[1] THEN hs1[1] ELSE hs0[1]
                              hts == IF hs0[1] < hs1[1]
                                     THEN raised(sub.heights, tips0, hs1[1] - hs0[1], h)
                                     ELSE IF hs0[1] # hs1[1]
                                          THEN raised(sub.heights, tips1, hs0[1] - hs1[1], h)
                                          ELSE sub.heights
                          IN IF node.branchlength = None
                             THEN fail(heightSet(hts, nid, h), "TypeError")
                             ELSE [hs |-> Some(h + node.branchlength[1]),
                                   tips |-> <<nid>> \o tips0 \o tips1,
                                   heights |-> heightSet(hts, nid, h), err |-> ""]

RECURSIVE collectNodeHeightsSimple(_, _, _)
RECURSIVE collectNodeHeightsSimpleOf(_, _, _)
collectNodeHeightsSimpleOf(t, succ, heights) ==
  IF succ = <<>> THEN [rs |-> <<>>, heights |-> heights, err |-> ""]
  ELSE LET r == collectNodeHeightsSimple(t, succ[1], heights)
       IN IF r.err # "" THEN [rs |-> <<>>, heights |-> r.heights, err |-> r.err]
          ELSE LET more == collectNodeHeightsSimpleOf(t, Tail(succ), r.heights)
               IN [rs |-> <<r.hs>> \o more.rs, heights |-> more.heights, err |-> more.err]
\* _collectNodeHeightsSimple(tree, nid, heights); max() passes over None
\* unless there is nothing else
collectNodeHeightsSimple(t, nid, heights) ==
  LET node == t.chain[nid]
  IN IF node.succ = <<>>
     THEN [hs |-> node.branchlength, heights |-> heightSet(heights, nid, 0), err |-> ""]
     ELSE LET sub == collectNodeHeightsSimpleOf(t, node.succ, heights)
              set == SelectSeq(sub.rs, LAMBDA x : x # None)
          IN IF sub.err # "" THEN [hs |-> None, heights |-> sub.heights, err |-> sub.err]
             ELSE IF set = <<>> \/ node.branchlength = None
                  THEN [hs |-> None, heights |-> sub.heights, err |-> "TypeError"]
                  ELSE LET h == MaxOf([k \in 1..Len(set) |-> set[k][1]])
                       IN [hs |-> Some(h + node.branchlength[1]),
                           heights |-> heightSet(sub.heights, nid, h), err |-> ""]

\* nodeHeights(tree, allTipsZero = ..), nids left None
nodeHeights(t, allTipsZero) ==
  LET r == IF allTipsZero THEN collectNodeHeightsSimple(t, t.root, <<>>)
           ELSE collectNodeHeights(t, t.root, <<>>)
  IN [ret |-> IF r.err = "" THEN r.heights ELSE <<>>, err |-> r.err]

(***************************************************************************)
(* nodeHeights of a tree as read, or pruned once                           *)
(***************************************************************************)
NodeHeights(allTipsZero) ==
  /\ last.op # "nodeHeights"
  /\ \E r \in {nodeHeights(tree, allTipsZero)} :
        /\ last' = [op |-> "nodeHeights", arg |-> [allTipsZero |-> allTipsZero],
                    ret |-> r.ret, err |-> r.err, before |-> tree]
        /\ ok' = (ok /\ r.err = "")
  /\ UNCHANGED <<txt, tree, steps>>

NextHeights ==
  \/ \E taxon \in Taxa : Prune(taxon, 1)
  \/ \E allTipsZero \in BOOLEAN : NodeHeights(allTipsZero)

SpecHeights == InitThreshold /\ [][NextHeights]_vars

(***************************************************************************)
(* C30.  Of a tree whose nodes have two children or none and whose lengths *)
(* are all set and not negative, nodeHeights(tree, allTipsZero=False)      *)
(* returns a height for every node, with height(p) - height(c) the branch  *)
(* length of c for every node c with parent p, no height below 0 and a     *)
(* leaf at height 0; when the leaves are all as far from the root, it is   *)
(* the map that nodeHeights(tree) returns with allTipsZero=True.           *)
(***************************************************************************)
Binary(t) == \A n \in DOMAIN t.chain : Len(t.chain[n].succ) \in {0, 2}
NotNegative(t) == \A n \in DOMAIN t.chain \ {t.root} : t.chain[n].branchlength[1] >= 0
HeightsAsked ==
  /\ last.op = "nodeHeights" /\ ~last.arg.allTipsZero
  /\ Binary(last.before) /\ LengthsSet(last.before) /\ NotNegative(last.before)
HeightsFit(t, heights) ==
  /\ DOMAIN heights = DOMAIN t.chain
  /\ \A c \in DOMAIN t.chain \ {t.root} :
        heights[t.chain[c].prev] - heights[c] = t.chain[c].branchlength[1]
  /\ \A n \in DOMAIN t.chain : heights[n] >= 0
  /\ \E leaf \in Leaves(t) : heights[leaf] = 0
====
